---------------------------- MODULE Spec2Model ----------------------------
(***************************************************************************)
(* A model of the reaction-recipe engine and the reaction enumerator of    *)
(* rmgpy/data/kinetics.py (classes ReactionRecipe and KineticsGroups).     *)
(*                                                                         *)
(* A structure is a labelled molecular graph: a set of atoms, one label    *)
(* and one radical count per atom, and bonds with an order "S", "D" or     *)
(* "T".  A recipe is a list of actions; an action is the list the code     *)
(* stores: <<name, center1, order, center2>> for the three bond actions    *)
(* and <<name, center, radical>> for the two radical actions, all items    *)
(* strings as read from the family files.                                  *)
(***************************************************************************)
EXTENDS Integers, Sequences, FiniteSets, TLC

VARIABLES
    recipe,     \* ReactionRecipe.actions of the recipe being built/applied
    other,      \* actions of the recipe returned by getReverse
    otherKind,  \* "none", "rev" = getReverse(R), "rev2" = getReverse(getReverse(R))
    struct,     \* the structure the recipe is applied to (edited in place)
    orig,       \* the caller's copy of the structure before any application
    status,     \* outcome of the last application on struct
    log,        \* connectivity/edit calls made by the last application on struct
    done,       \* actions completed by the last application on struct
    struct2,    \* a second copy of orig, edited by the recipe in `other`
    status2,    \* outcome of the application on struct2
    log2,       \* calls made by the application on struct2
    pc,         \* position of the calling session
    family,     \* the loaded KineticsGroups: label, template sizes, forbidden
    isForward,  \* direction of the last call on the family
    productSets,  \* atom sets of the product structures the last call returned
    reactionList, \* the rxnList generateReactions returned
    generated,  \* calls of __generateProductStructures by generateReactions
    accumulated, \* the degeneracies of reactionList as the duplicate merging left them
    top,        \* self.top: the top-level nodes of the family's trees, in order
    library,    \* the rate store: the index of the entry stored for a tuple of nodes
    reaction,   \* reaction.reactants of the reaction handed to the last lookup
    template,   \* the nodes getReactionTemplate returned
    kinetics,   \* the index of the entry whose data getKinetics returned
    templates,  \* the templates handed to fitGroupValues
    Tdata,      \* the temperatures handed to fitGroupValues
    data,       \* entry.data of every node of the trees
    A,          \* the rows of the least-squares matrix the fit built last
    kmodel,     \* for every template, the groups whose values its modelled rate sums
    queries,    \* the generateReactions calls in progress over the caller's molecule
    sameReactants, \* how one species was given for both reactants, "no" if it was not
    implicitHydrogens, \* the implicitHydrogens flag of every reactant molecule
    loaded,     \* the forward and the reverse template the loader left
    entries,    \* the entries of the kinetics library of the database
    request,    \* the reactants and products a database call was given
    found       \* what the database call returned

vars == <<recipe, other, otherKind, struct, orig, status, log, done, struct2, status2, log2, pc,
          family, isForward, productSets, reactionList, generated, accumulated,
          top, library, reaction, template, kinetics, templates, Tdata, data, A, kmodel,
          queries, sameReactants, implicitHydrogens, loaded, entries, request, found>>

\* The variables only calls on a family change.
famvars == <<family, isForward, productSets, reactionList, generated, accumulated>>

\* The variables only the rate lookup and the fit change.
kinvars == <<top, library, reaction, template, kinetics, templates, Tdata, data, A, kmodel>>

\* The variables only the queries over one molecule change.
qvars == <<queries, sameReactants, implicitHydrogens>>

\* No query is in progress and no reactant has been handed over.
QueriesUnused ==
    /\ queries = <<>>
    /\ sameReactants = "no"
    /\ implicitHydrogens = <<>>

\* The variables only the calls of the database change.
dbvars == <<entries, request, found>>

\* No tree is loaded and no lookup or fit has been asked for.
KineticsUnused ==
    /\ top = <<>>
    /\ library = <<>>
    /\ reaction = <<>>
    /\ template = <<>>
    /\ kinetics = 0
    /\ templates = <<>>
    /\ Tdata = <<>>
    /\ data = <<>>
    /\ A = <<>>
    /\ kmodel = <<>>

-----------------------------------------------------------------------------
(* Bounds and the finite universe the inputs are drawn from.               *)

\* Longest recipe built by addAction.
MaxActions == 2

\* The atoms of a structure, in the order of its atom list.
Atoms == {1, 2, 3}

\* getLabeledAtom's "no such atom" (Python None).
None == 0

\* A request of a database call, and what a call returns: a list of
\* reactions or the data of an entry (None for no data).
Request(reactants, products, given) ==
    [reactants |-> reactants, products |-> products, given |-> given]

Found(list, kineticsData) == [list |-> list, data |-> kineticsData]

\* No database is loaded and no call of it was made.
DatabaseUnused ==
    /\ entries = <<>>
    /\ request = Request(<<>>, <<>>, FALSE)
    /\ found = Found(<<>>, None)

\* Label pairs of the bond actions: two different centers, and one pair
\* naming the same center twice.
BondCenters == {<<"*1", "*2">>, <<"*2", "*2">>}

\* Centers of the radical actions.
RadicalCenters == {"*1", "*2"}

\* The actions a recipe is built from: the five kinds of the action table.
BondActions ==
    {<<"CHANGE_BOND", c[1], i, c[2]>> : c \in BondCenters, i \in {"1", "+1", "-1"}}
    \cup {<<n, c[1], "S", c[2]>> : n \in {"FORM_BOND", "BREAK_BOND"}, c \in BondCenters}
    \cup {<<n, "*1", "D", "*2">> : n \in {"FORM_BOND", "BREAK_BOND"}}

RadicalActions ==
    {<<n, c, "1">> : n \in {"GAIN_RADICAL", "LOSE_RADICAL"}, c \in RadicalCenters}

ActionAlphabet == BondActions \cup RadicalActions

-----------------------------------------------------------------------------
(* Python's int() and str() on the operand strings of the recipes.         *)

\* int(s) for the decimal strings that occur as operands.
ParseInt(s) ==
    CASE s = "1" -> 1
      [] s = "+1" -> 1
      [] s = "-1" -> 0 - 1
      [] s = "2" -> 2
      [] s = "-2" -> 0 - 2
      [] s = "0" -> 0
      [] OTHER -> 0

\* str(n).
IntStr(n) ==
    CASE n = 1 -> "1"
      [] n = 0 - 1 -> "-1"
      [] n = 2 -> "2"
      [] n = 0 - 2 -> "-2"
      [] OTHER -> "0"

-----------------------------------------------------------------------------
(* The molecular-graph collaborator (rmgpy.chem.molecule / pattern).        *)

Edge(a, b) == {a, b}

\* struct.getLabeledAtom(label): the first atom of the atom list carrying the
\* label, or None.
getLabeledAtom(s, label) ==
    LET c == {a \in s.atoms : s.label[a] = label}
    IN IF c = {} THEN None ELSE CHOOSE a \in c : \A b \in c : a <= b

\* struct.containsLabeledAtom(label)
containsLabeledAtom(s, label) == \E a \in s.atoms : s.label[a] = label

\* struct.hasBond(atom1, atom2)
hasBond(s, a, b) == Edge(a, b) \in DOMAIN s.bond

\* struct.addBond(atom1, atom2, bond): stores the bond object for the pair.
addBond(s, a, b, order) ==
    [s EXCEPT !.bond = [e \in (DOMAIN s.bond) \cup {Edge(a, b)} |->
                            IF e = Edge(a, b) THEN order ELSE s.bond[e]]]

\* struct.removeBond(atom1, atom2)
removeBond(s, a, b) ==
    [s EXCEPT !.bond = [e \in (DOMAIN s.bond) \ {Edge(a, b)} |-> s.bond[e]]]

\* Bond.incrementOrder / decrementOrder: "" stands for an invalid transition.
incrementOrder(o) == CASE o = "S" -> "D" [] o = "D" -> "T" [] OTHER -> ""
decrementOrder(o) == CASE o = "D" -> "S" [] o = "T" -> "D" [] OTHER -> ""

\* bond.applyAction(['CHANGE_BOND', label1, info, label2]): the new order, or
\* "" when the transition is invalid.
BondApplyAction(o, info) ==
    IF info = 1 THEN incrementOrder(o)
    ELSE IF info = 0 - 1 THEN decrementOrder(o)
    ELSE ""


-----------------------------------------------------------------------------
(* ReactionRecipe                                                          *)

\* ReverseAction with the BREAK_BOND branch a copy of the FORM_BOND branch.
ReverseActionCopiedBranch(action) ==
    CASE action[1] = "CHANGE_BOND" ->
            <<<<"CHANGE_BOND", action[2], IntStr(0 - ParseInt(action[3])), action[4]>>>>
      [] action[1] = "FORM_BOND" -> <<<<"BREAK_BOND", action[2], action[3], action[4]>>>>
      [] action[1] = "BREAK_BOND" -> <<<<"BREAK_BOND", action[2], action[3], action[4]>>>>
      [] action[1] = "LOSE_RADICAL" -> <<<<"GAIN_RADICAL", action[2], action[3]>>>>
      [] action[1] = "GAIN_RADICAL" -> <<<<"LOSE_RADICAL", action[2], action[3]>>>>
      [] OTHER -> <<>>

\* The inverse action appended by one iteration of getReverse's loop; <<>>
\* when the loop appends nothing (an action name outside the five kinds).
ReverseAction(action) ==
    CASE action[1] = "CHANGE_BOND" ->
            <<<<"CHANGE_BOND", action[2], IntStr(0 - ParseInt(action[3])), action[4]>>>>
      [] action[1] = "FORM_BOND" -> <<<<"BREAK_BOND", action[2], action[3], action[4]>>>>
      [] action[1] = "BREAK_BOND" -> <<<<"FORM_BOND", action[2], action[3], action[4]>>>>
      [] action[1] = "LOSE_RADICAL" -> <<<<"GAIN_RADICAL", action[2], action[3]>>>>
      [] action[1] = "GAIN_RADICAL" -> <<<<"LOSE_RADICAL", action[2], action[3]>>>>
      [] OTHER -> <<>>

\* getReverse walking self.actions back to front.
RECURSIVE getReverseBackwards(_)
getReverseBackwards(actions) ==
    IF actions = <<>> THEN <<>>
    ELSE getReverseBackwards(Tail(actions)) \o
         (IF Head(actions)[1] = "CHANGE_BOND"
          THEN <<<<"CHANGE_BOND", Head(actions)[2], IF Head(actions)[3] = "-1" THEN "1" ELSE "-1", Head(actions)[4]>>>>
          ELSE IF Head(actions)[1] = "FORM_BOND" THEN <<<<"BREAK_BOND", Head(actions)[2], Head(actions)[3], Head(actions)[4]>>>>
          ELSE IF Head(actions)[1] = "BREAK_BOND" THEN <<<<"FORM_BOND", Head(actions)[2], Head(actions)[3], Head(actions)[4]>>>>
          ELSE IF Head(actions)[1] = "LOSE_RADICAL" THEN <<<<"GAIN_RADICAL", Head(actions)[2], Head(actions)[3]>>>>
          ELSE <<<<"LOSE_RADICAL", Head(actions)[2], Head(actions)[3]>>>>)

\* ReactionRecipe.getReverse: a new action list, filled front to back by
\* addAction while the loop walks self.actions front to back.
RECURSIVE getReverseFrom(_, _, _)
getReverseFrom(actions, i, acc) ==
    IF i > Len(actions) THEN acc
    ELSE getReverseFrom(actions, i + 1, acc \o ReverseAction(actions[i]))

getReverse(actions) == getReverseFrom(actions, 1, <<>>)

\* The result of an application so far: the structure as edited, the
\* outcome, the calls made, and the number of loop iterations completed.
Outcome(s, st, lg) == [struct |-> s, status |-> st, log |-> lg, done |-> 0]

\* The `for i in range(change)` loop of a radical action: one
\* atom.applyAction(['GAIN_RADICAL'|'LOSE_RADICAL', label, 1]) per round;
\* decrementing a radical count of zero is the atom's invalid transition.
RECURSIVE RadicalLoop(_, _, _, _)
RadicalLoop(acc, atom, gain, n) ==
    IF n <= 0 THEN acc
    ELSE IF gain
         THEN RadicalLoop([acc EXCEPT !.struct.rad[atom] = @ + 1,
                                      !.log = Append(@, "edit")], atom, gain, n - 1)
         ELSE IF acc.struct.rad[atom] = 0
              THEN [acc EXCEPT !.status = "ActionError"]
              ELSE RadicalLoop([acc EXCEPT !.struct.rad[atom] = @ - 1,
                                           !.log = Append(@, "edit")], atom, gain, n - 1)

\* ChangeBondBranch applying the change as written in either direction.
ChangeBondBranchIgnoringDirection(reset, atom1, atom2, info, doForward) ==
    LET s == reset.struct
    IN IF ~hasBond(s, atom1, atom2)
       THEN [reset EXCEPT !.status = "ActionError"]
       ELSE LET order == BondApplyAction(s.bond[Edge(atom1, atom2)], ParseInt(info))
            IN IF order = ""
               THEN [reset EXCEPT !.status = "ActionError"]
               ELSE [reset EXCEPT !.struct.bond[Edge(atom1, atom2)] = order,
                                  !.log = Append(@, "edit")]

\* CHANGE_BOND: struct.getBond, then atom1/atom2/bond.applyAction with the
\* change negated in the reverse direction.
ChangeBondBranch(reset, atom1, atom2, info, doForward) ==
    LET s == reset.struct
    IN IF ~hasBond(s, atom1, atom2)
       THEN [reset EXCEPT !.status = "ActionError"]
       ELSE LET change == IF doForward THEN ParseInt(info) ELSE 0 - ParseInt(info)
                order == BondApplyAction(s.bond[Edge(atom1, atom2)], change)
            IN IF order = ""
               THEN [reset EXCEPT !.status = "ActionError"]
               ELSE [reset EXCEPT !.struct.bond[Edge(atom1, atom2)] = order,
                                  !.log = Append(@, "edit")]

\* FORM_BOND forward, BREAK_BOND reverse: struct.addBond of a new Bond(order='S').
FormBondBranch(reset, atom1, atom2, info) ==
    [reset EXCEPT !.struct = addBond(reset.struct, atom1, atom2, "S"),
                  !.log = Append(@, "edit")]

\* BreakBondBranch without the hasBond test.
BreakBondUnchecked(reset, atom1, atom2, info) ==
    [reset EXCEPT !.struct = removeBond(reset.struct, atom1, atom2),
                  !.log = Append(@, "edit")]

\* BreakBondBranch removing the second atom together with the bond.
BreakBondDropsAtom(reset, atom1, atom2, info) ==
    IF ~hasBond(reset.struct, atom1, atom2)
    THEN [reset EXCEPT !.status = "InvalidActionError"]
    ELSE [reset EXCEPT !.struct = [removeBond(reset.struct, atom1, atom2)
                                      EXCEPT !.atoms = @ \ {atom2}],
                       !.log = Append(@, "edit")]

\* BREAK_BOND forward, FORM_BOND reverse: struct.removeBond, refused when the
\* two atoms have no bond.
BreakBondBranch(reset, atom1, atom2, info) ==
    IF ~hasBond(reset.struct, atom1, atom2)
    THEN [reset EXCEPT !.status = "InvalidActionError"]
    ELSE [reset EXCEPT !.struct = removeBond(reset.struct, atom1, atom2),
                       !.log = Append(@, "edit")]

\* The branch of __apply's loop body for CHANGE_BOND, FORM_BOND, BREAK_BOND.
ApplyBondAction(acc, action, doForward) ==
    LET reset == [acc EXCEPT !.log = Append(@, "resetConnectivityValues")]
        label1 == action[2]
        info == action[3]
        label2 == action[4]
        atom1 == getLabeledAtom(acc.struct, label1)
        atom2 == getLabeledAtom(acc.struct, label2)
    IN IF atom1 = None \/ atom2 = None \/ atom1 = atom2
       THEN [reset EXCEPT !.status = "InvalidActionError"]
       ELSE IF action[1] = "CHANGE_BOND"
       THEN ChangeBondBranch(reset, atom1, atom2, info, doForward)
       ELSE IF (action[1] = "FORM_BOND" /\ doForward) \/ (action[1] = "BREAK_BOND" /\ ~doForward)
       THEN FormBondBranch(reset, atom1, atom2, info)
       ELSE IF (action[1] = "BREAK_BOND" /\ doForward) \/ (action[1] = "FORM_BOND" /\ ~doForward)
       THEN BreakBondBranch(reset, atom1, atom2, info)
       ELSE reset

\* The branch of __apply's loop body for LOSE_RADICAL and GAIN_RADICAL.
ApplyRadicalAction(acc, action, doForward) ==
    LET label == action[2]
        change == ParseInt(action[3])
        atom == getLabeledAtom(acc.struct, label)
        gain == (action[1] = "GAIN_RADICAL" /\ doForward) \/ (action[1] = "LOSE_RADICAL" /\ ~doForward)
    IN IF atom = None
       THEN [acc EXCEPT !.status = "InvalidActionError"]
       ELSE RadicalLoop(acc, atom, gain, change)

\* One iteration of the loop of __apply.
ApplyAction(acc, action, doForward) ==
    IF action[1] \in {"CHANGE_BOND", "FORM_BOND", "BREAK_BOND"}
    THEN ApplyBondAction(acc, action, doForward)
    ELSE IF action[1] \in {"LOSE_RADICAL", "GAIN_RADICAL"}
    THEN ApplyRadicalAction(acc, action, doForward)
    ELSE [acc EXCEPT !.status = "InvalidActionError"]

\* __apply with updateConnectivityValues inside the loop, once per action.
RECURSIVE ApplyFromUpdatingEach(_, _, _, _)
ApplyFromUpdatingEach(actions, i, acc, doForward) ==
    IF i > Len(actions) THEN acc
    ELSE LET nxt == ApplyAction(acc, actions[i], doForward)
         IN IF nxt.status # "ok" THEN nxt
            ELSE ApplyFromUpdatingEach(actions, i + 1,
                     [nxt EXCEPT !.done = i, !.log = Append(@, "updateConnectivityValues")],
                     doForward)

\* ReactionRecipe.__apply: the loop over self.actions, left by the first
\* exception, and struct.updateConnectivityValues() after the loop.
RECURSIVE ApplyFrom(_, _, _, _)
ApplyFrom(actions, i, acc, doForward) ==
    IF i > Len(actions)
    THEN [acc EXCEPT !.log = Append(@, "updateConnectivityValues")]
    ELSE LET nxt == ApplyAction(acc, actions[i], doForward)
         IN IF nxt.status # "ok" THEN nxt
            ELSE ApplyFrom(actions, i + 1, [nxt EXCEPT !.done = i], doForward)

Apply(actions, s, doForward) == ApplyFrom(actions, 1, Outcome(s, "ok", <<>>), doForward)

\* ReactionRecipe.applyForward / applyReverse
applyForward(actions, s) == Apply(actions, s, TRUE)
applyReverse(actions, s) == Apply(actions, s, FALSE)

-----------------------------------------------------------------------------
(* The structures a session starts from.                                   *)

\* A structure over Atoms with the given labels, bonds and radical count.
Structure(labels, bonds, r) ==
    [atoms |-> Atoms,
     label |-> [a \in Atoms |-> labels[a]],
     rad   |-> [a \in Atoms |-> r],
     bond  |-> bonds]

\* Bonds: atoms 1 and 2 unbonded, singly or doubly bonded; atom 3 apart,
\* bonded to atom 2 (a chain), or bonded to both (a three-membered ring).
BondChoices ==
    {[e \in d12 \cup d3 |-> IF e = {1, 2} THEN o ELSE "S"] :
        d12 \in {{}, {{1, 2}}}, o \in {"S", "D"},
        d3 \in {{}, {{2, 3}}, {{1, 3}, {2, 3}}}}

\* Labelings handed to the recipe engine: both centers tagged, or one of
\* them missing.
RecipeLabelings == {<<"*1", "*2", "">>, <<"*1", "", "">>}

RecipeStructs ==
    {Structure(l, b, r) : l \in RecipeLabelings, b \in BondChoices, r \in {0, 1}}

\* A structure no application has touched.
NoStruct == Structure(<<"", "", "">>, <<>>, 0)

\* Reaction(reactants=..., products=...) as a template, and no template.
TemplateOf(reactants, products) ==
    [isNone |-> FALSE, reactants |-> reactants, products |-> products]

NoTemplate == [isNone |-> TRUE, reactants |-> <<>>, products |-> <<>>]

\* The top-level groups of the reactants of a family, and its products: the
\* patterns generateProductTemplate makes, or the ones the template names.
ReactantGroups(fam) == [k \in 1..fam.nReactants |-> <<"reactant", k>>]
ProductGroups(fam) == [k \in 1..fam.nProducts |-> <<"product", k>>]

\* The templates before any loader ran.
NotLoaded == [forwardTemplate |-> NoTemplate, reverseTemplate |-> NoTemplate]

\* The templates KineticsGroups.load leaves.
LoadTemplates(fam) ==
    [forwardTemplate |-> TemplateOf(ReactantGroups(fam), ProductGroups(fam)),
     reverseTemplate |-> IF fam.ownReverse THEN NoTemplate
                         ELSE TemplateOf(ProductGroups(fam), ReactantGroups(fam))]

\* The templates KineticsGroups.loadOld leaves.
LoadOldTemplates(fam) ==
    [forwardTemplate |-> IF fam.ownReverse
                         THEN TemplateOf(ReactantGroups(fam), ReactantGroups(fam))
                         ELSE TemplateOf(ReactantGroups(fam), ProductGroups(fam)),
     reverseTemplate |-> IF fam.ownReverse THEN NoTemplate
                         ELSE TemplateOf(ReactantGroups(fam), ProductGroups(fam))]

\* No family loaded yet.
NoFamily ==
    [label |-> "", ownReverse |-> FALSE, nReactants |-> 0, nProducts |-> 0, forbidden |-> {},
     bonded |-> FALSE]

-----------------------------------------------------------------------------
(* The recipe session: a recipe is built with addAction, reversed with      *)
(* getReverse, and applied to the caller's structure.                      *)

Init ==
    /\ recipe = <<>>
    /\ other = <<>>
    /\ otherKind = "none"
    /\ struct \in RecipeStructs
    /\ orig = struct
    /\ status = "none"
    /\ log = <<>>
    /\ done = 0
    /\ struct2 = NoStruct
    /\ status2 = "none"
    /\ log2 = <<>>
    /\ pc = "build"
    /\ family = NoFamily
    /\ isForward = TRUE
    /\ productSets = <<>>
    /\ reactionList = <<>>
    /\ generated = 0
    /\ accumulated = <<>>
    /\ KineticsUnused
    /\ QueriesUnused
    /\ loaded = NotLoaded
    /\ DatabaseUnused

\* ReactionRecipe.addAction(action)
AddAction(action) ==
    /\ pc = "build"
    /\ otherKind = "none"
    /\ Len(recipe) < MaxActions
    /\ recipe' = Append(recipe, action)
    /\ UNCHANGED <<other, otherKind, struct, orig, status, log, done, struct2, status2, log2, pc>>
    /\ UNCHANGED famvars
    /\ UNCHANGED kinvars
    /\ UNCHANGED qvars
    /\ UNCHANGED dbvars
    /\ UNCHANGED loaded

\* other = recipe.getReverse(), and then other = other.getReverse()
GetReverse ==
    /\ pc = "build"
    /\ otherKind \in {"none", "rev"}
    /\ other' = IF otherKind = "none" THEN getReverse(recipe) ELSE getReverse(other)
    /\ otherKind' = IF otherKind = "none" THEN "rev" ELSE "rev2"
    /\ UNCHANGED <<recipe, struct, orig, status, log, done, struct2, status2, log2, pc>>
    /\ UNCHANGED famvars
    /\ UNCHANGED kinvars
    /\ UNCHANGED qvars
    /\ UNCHANGED dbvars
    /\ UNCHANGED loaded

\* recipe.applyForward(struct) on the untouched structure
ApplyForward ==
    /\ pc = "build"
    /\ LET r == applyForward(recipe, struct)
       IN /\ struct' = r.struct
          /\ status' = r.status
          /\ log' = r.log
          /\ done' = r.done
    /\ pc' = "fwd"
    /\ UNCHANGED <<recipe, other, otherKind, orig, struct2, status2, log2>>
    /\ UNCHANGED famvars
    /\ UNCHANGED kinvars
    /\ UNCHANGED qvars
    /\ UNCHANGED dbvars
    /\ UNCHANGED loaded

\* recipe.applyReverse(struct): on the untouched structure, or on the result
\* of a successful applyForward (the round trip).
ApplyReverse ==
    /\ \/ pc = "build"
       \/ pc = "fwd" /\ status = "ok"
    /\ LET r == applyReverse(recipe, struct)
       IN /\ struct' = r.struct
          /\ status' = r.status
          /\ log' = r.log
          /\ done' = r.done
    /\ pc' = IF pc = "build" THEN "rev" ELSE "fwdrev"
    /\ UNCHANGED <<recipe, other, otherKind, orig, struct2, status2, log2>>
    /\ UNCHANGED famvars
    /\ UNCHANGED kinvars
    /\ UNCHANGED qvars
    /\ UNCHANGED dbvars
    /\ UNCHANGED loaded

\* other.applyForward / other.applyReverse on a second copy of the caller's
\* structure, after the recipe itself was applied to the first.
ApplyOther(doForward) ==
    /\ pc \in {"fwd", "rev"}
    /\ otherKind # "none"
    /\ LET r == Apply(other, orig, doForward)
       IN /\ struct2' = r.struct
          /\ status2' = r.status
          /\ log2' = r.log
    /\ pc' = IF pc = "fwd" THEN (IF doForward THEN "fwd_fwd" ELSE "fwd_rev")
                           ELSE (IF doForward THEN "rev_fwd" ELSE "rev_rev")
    /\ UNCHANGED <<recipe, other, otherKind, struct, orig, status, log, done>>
    /\ UNCHANGED famvars
    /\ UNCHANGED kinvars
    /\ UNCHANGED qvars
    /\ UNCHANGED dbvars
    /\ UNCHANGED loaded

Next ==
    \/ \E action \in ActionAlphabet : AddAction(action)
    \/ GetReverse
    \/ ApplyForward
    \/ ApplyReverse
    \/ \E doForward \in BOOLEAN : ApplyOther(doForward)

Spec == Init /\ [][Next]_vars

-----------------------------------------------------------------------------
(* More of the molecular-graph collaborator: connected components, rings.   *)

\* The atoms reachable from a set of atoms over the bonds of s.
RECURSIVE Reachable(_, _)
Reachable(s, set) ==
    LET more == set \cup {b \in s.atoms : \E a \in set : hasBond(s, a, b)}
    IN IF more = set THEN set ELSE Reachable(s, more)

\* The atom sets of the connected components of s.
Components(s) == {Reachable(s, {a}) : a \in s.atoms}

\* The part of s on a set of its atoms.
Restrict(s, set) ==
    [atoms |-> set,
     label |-> [a \in set |-> s.label[a]],
     rad   |-> [a \in set |-> s.rad[a]],
     bond  |-> [e \in {d \in DOMAIN s.bond : d \subseteq set} |-> s.bond[e]]]

\* The orders in which struct.split() may list a set of components.
SplitOrders(comps) ==
    {q \in [1..Cardinality(comps) -> comps] : \A i, j \in DOMAIN q : q[i] = q[j] => i = j}

\* struct.isVertexInCycle(atom): two neighbours of the atom are joined by a
\* path that avoids it.
isVertexInCycle(s, atom) ==
    LET rest == Restrict(s, s.atoms \ {atom})
        nb == {b \in s.atoms : b # atom /\ hasBond(s, atom, b)}
    IN \E b, c \in nb : b # c /\ c \in Reachable(rest, {b})

\* struct.clearLabeledAtoms()
clearLabeledAtoms(s) == [s EXCEPT !.label = [a \in s.atoms |-> ""]]

\* Molecule.isIsomorphic: a one-to-one correspondence of the atoms that keeps
\* radical counts, bonds and bond orders (labels are not compared).
IsIsomorphic(s1, s2) ==
    \E p \in [s1.atoms -> s2.atoms] :
        /\ \A a, b \in s1.atoms : p[a] = p[b] => a = b
        /\ {p[a] : a \in s1.atoms} = s2.atoms
        /\ \A a \in s1.atoms : s1.rad[a] = s2.rad[p[a]]
        /\ {{p[a] : a \in e} : e \in DOMAIN s1.bond} = DOMAIN s2.bond
        /\ \A e \in DOMAIN s1.bond : s2.bond[{p[a] : a \in e}] = s1.bond[e]

-----------------------------------------------------------------------------
(* KineticsGroups: a reaction family.                                      *)

\* Family labels as loaded (the file's base name).
FamilyLabels ==
    {"R_Recombination", "H_Abstraction", "intra_H_migration", "Disproportionation",
     "Unimolecular homolysis"}

\* self.label.lower()
Lower(label) ==
    CASE label = "R_Recombination" -> "r_recombination"
      [] label = "H_Abstraction" -> "h_abstraction"
      [] label = "intra_H_migration" -> "intra_h_migration"
      [] label = "Disproportionation" -> "disproportionation"
      [] label = "Unimolecular homolysis" -> "unimolecular homolysis"
      [] OTHER -> label

\* '*' + str(n) and '*%d' % n
StarLabel(n) ==
    CASE n = 1 -> "*1" [] n = 2 -> "*2" [] n = 3 -> "*3" [] n = 4 -> "*4"
      [] n = 5 -> "*5" [] n = 6 -> "*6" [] OTHER -> "*0"

\* len(template.reactants) and len(template.products) of the template of a
\* direction: the reverse template swaps the forward one's lists.
TemplateReactants(fam, forward) == IF forward THEN fam.nReactants ELSE fam.nProducts
TemplateProducts(fam, forward) == IF forward THEN fam.nProducts ELSE fam.nReactants

\* self.reverseTemplate is not None
HasReverseTemplate(fam) == ~fam.ownReverse

\* applyRecipe, radical recombination forward: the atoms labeled '*' become
\* '*1', '*2', ... in atom order; anything but two of them is an error.
RelabelIdenticalCenters(s) ==
    LET stars == {a \in s.atoms : s.label[a] = "*"}
        counter(a) == Cardinality({b \in stars : b <= a})
        relabeled == [s EXCEPT !.label = [a \in s.atoms |->
                         IF a \in stars THEN StarLabel(counter(a)) ELSE s.label[a]]]
    IN [struct |-> relabeled,
        status |-> IF Cardinality(stars) # 2 THEN "Exception" ELSE "ok"]

\* applyRecipe, reverse of radical recombination: '*1' and '*2' become '*'.
RelabelHomolysisProducts(s) ==
    [s EXCEPT !.label = [a \in s.atoms |->
        IF s.label[a] = "*1" \/ s.label[a] = "*2" THEN "*" ELSE s.label[a]]]

\* atomLabels[label]: the dictionary keeps the last atom carrying a label.
AtomLabelled(s, label) ==
    LET c == {a \in s.atoms : s.label[a] = label}
    IN IF c = {} THEN None ELSE CHOOSE a \in c : \A b \in c : b <= a

\* The `for i in range(4, highest+1)` loop of the intra_h_migration
\* relabeling, over the dictionary built before any label changed.
RECURSIVE ReverseChain(_, _, _, _)
ReverseChain(s0, s, i, highest) ==
    IF i > highest THEN [struct |-> s, status |-> "ok"]
    ELSE IF AtomLabelled(s0, StarLabel(i)) = None
    THEN [struct |-> s, status |-> "KeyError"]
    ELSE ReverseChain(s0, [s EXCEPT !.label[AtomLabelled(s0, StarLabel(i))] =
                                        StarLabel(4 + highest - i)], i + 1, highest)

\* applyRecipe, family that is its own reverse: the product labels are swapped
\* so that the products read as reactants of the same family.
RelabelOwnReverse(s, label) ==
    LET a1 == AtomLabelled(s, "*1")
        a2 == AtomLabelled(s, "*2")
        a3 == AtomLabelled(s, "*3")
        highest == Cardinality({s.label[a] : a \in s.atoms} \ {""})
    IN IF label = "h_abstraction"
       THEN IF a1 = None THEN [struct |-> s, status |-> "KeyError"]
            ELSE IF a3 = None
            THEN [struct |-> [s EXCEPT !.label[a1] = "*3"], status |-> "KeyError"]
            ELSE [struct |-> [s EXCEPT !.label[a1] = "*3", !.label[a3] = "*1"],
                  status |-> "ok"]
       ELSE IF label = "intra_h_migration"
       THEN IF a1 = None THEN [struct |-> s, status |-> "KeyError"]
            ELSE IF a2 = None
            THEN [struct |-> [s EXCEPT !.label[a1] = "*2"], status |-> "KeyError"]
            ELSE LET swapped == [s EXCEPT !.label[a1] = "*2", !.label[a2] = "*1"]
                 IN IF highest > 4 THEN ReverseChain(s, swapped, 4, highest)
                    ELSE [struct |-> swapped, status |-> "ok"]
       ELSE [struct |-> s, status |-> "ok"]

\* A variant that hands the product structures back as split() listed them.
KeepSplitOrder(s, products) == products

\* If there are two product structures, place the one containing '*1' first.
PlaceStarOneFirst(s, products) ==
    IF Len(products) = 2
       /\ ~containsLabeledAtom(Restrict(s, products[1]), "*1")
       /\ containsLabeledAtom(Restrict(s, products[2]), "*1")
    THEN <<products[2], products[1]>>
    ELSE products

\* What a call on the family hands back: the product structure as edited,
\* the atom sets of the returned product structures in order, and the
\* outcome ("ok", "None" for a returned None, or the exception raised).
FamilyResult(s, products, st) == [struct |-> s, products |-> products, status |-> st]

\* A variant that fails quietly on any single product of a reverse
\* recombination, without looking for the ring.
CheckProductsWithoutRingTest(fam, forward, reactants, product, split) ==
    IF TemplateProducts(fam, forward) # Len(split)
    THEN IF /\ Lower(fam.label) = "r_recombination" /\ ~forward
            /\ Len(split) = 1
            /\ Cardinality(Components(reactants)) = 1
         THEN [struct |-> product, products |-> <<>>, status |-> "None"]
         ELSE [struct |-> product, products |-> <<>>, status |-> "Exception"]
    ELSE [struct |-> product, products |-> PlaceStarOneFirst(product, split), status |-> "ok"]

\* applyRecipe from the split on: the count test against the template, the
\* ring-opening excuse, and the ordering of two products.  `reactants` is
\* the merged list of reactant structures, one component per structure; a
\* reactant without '*1' or '*2' cannot pass the ring test and ends in an
\* error like any other mismatch.
CheckProducts(fam, forward, reactants, product, split) ==
    LET label == Lower(fam.label)
        nReactantStructures == Cardinality(Components(reactants))
    IN IF TemplateProducts(fam, forward) # Len(split)
       THEN IF /\ label = "r_recombination" /\ ~forward
               /\ Len(split) = 1
               /\ nReactantStructures = 1
               /\ getLabeledAtom(reactants, "*1") # None
               /\ getLabeledAtom(reactants, "*2") # None
               /\ isVertexInCycle(reactants, getLabeledAtom(reactants, "*1"))
               /\ isVertexInCycle(reactants, getLabeledAtom(reactants, "*2"))
            THEN FamilyResult(product, <<>>, "None")
            ELSE FamilyResult(product, <<>>, "Exception")
       ELSE FamilyResult(product, PlaceStarOneFirst(product, split), "ok")

\* productStructure.split(): the components, listed by the priority `order`
\* gives their atoms.
SplitBy(s, order) ==
    CHOOSE q \in SplitOrders(Components(s)) :
        \A i, j \in DOMAIN q : i < j => \E a \in q[i] : \A b \in q[j] : order[a] < order[b]

\* applyRecipe once the labels of the product structure are final.
SplitProducts(fam, forward, reactants, relabeled, order) ==
    IF relabeled.status # "ok" THEN FamilyResult(relabeled.struct, <<>>, relabeled.status)
    ELSE CheckProducts(fam, forward, reactants, relabeled.struct,
                       SplitBy(relabeled.struct, order))

\* applyRecipe after the recipe ran: the hardcoded relabelings of the product
\* structure, for the reverse of recombination and for own-reverse families.
RelabelProducts(fam, forward, reactants, applied, order) ==
    IF applied.status # "ok" THEN FamilyResult(applied.struct, <<>>, applied.status)
    ELSE IF ~HasReverseTemplate(fam)
    THEN SplitProducts(fam, forward, reactants,
             RelabelOwnReverse(IF Lower(fam.label) = "r_recombination" /\ ~forward
                               THEN RelabelHomolysisProducts(applied.struct)
                               ELSE applied.struct, Lower(fam.label)), order)
    ELSE SplitProducts(fam, forward, reactants,
             [struct |-> IF Lower(fam.label) = "r_recombination" /\ ~forward
                         THEN RelabelHomolysisProducts(applied.struct)
                         ELSE applied.struct,
              status |-> "ok"], order)

\* applyRecipe from the application of the recipe on: the forward recipe, or
\* the forward application of the reverse recipe (None has no applyForward).
ApplyFamilyRecipe(fam, forwardRecipe, hasReverseRecipe, reverse, reactants, forward, order, tagged) ==
    IF tagged.status # "ok" THEN FamilyResult(tagged.struct, <<>>, tagged.status)
    ELSE IF ~forward /\ ~hasReverseRecipe
    THEN FamilyResult(tagged.struct, <<>>, "AttributeError")
    ELSE RelabelProducts(fam, forward, reactants,
             applyForward(IF forward THEN forwardRecipe ELSE reverse, tagged.struct), order)

\* KineticsGroups.applyRecipe on the merged copy of the reactant structures;
\* `reverse` is self.reverseRecipe (used when it is not None), `order` picks
\* the order in which split() lists the components.
applyRecipe(fam, forwardRecipe, hasReverseRecipe, reverse, reactants, forward, order) ==
    ApplyFamilyRecipe(fam, forwardRecipe, hasReverseRecipe, reverse, reactants, forward, order,
        IF Lower(fam.label) = "r_recombination" /\ forward
        THEN RelabelIdenticalCenters(reactants)
        ELSE [struct |-> reactants, status |-> "ok"])

\* struct.isSubgraphIsomorphic(struct2) for a forbidden structure: the
\* forbidden structures of the model are single bonds of a given order.
MatchesForbidden(s, order) == \E e \in DOMAIN s.bond : s.bond[e] = order

\* The tagging loop of __generateProductStructures: every mapped reactant
\* atom takes the label of its template atom ("" for an unlabeled one).
TagAtoms(s, map) == [s EXCEPT !.label = [a \in s.atoms |-> map[a]]]

\* A variant whose except clause gives up on the candidate instead of
\* raising the InvalidActionError again.
ProductStructuresSwallowing(fam, tagged, r) ==
    IF r.status = "InvalidActionError" THEN [r EXCEPT !.status = "None"]
    ELSE IF r.status # "ok" THEN r
    ELSE IF r.products = <<>> THEN [r EXCEPT !.status = "None"]
    ELSE FamilyResult(r.struct, PlaceStarOneFirst(r.struct, r.products), "ok")

\* __generateProductStructures from the try block on, r being what
\* applyRecipe did: an InvalidActionError is reported and raised again, any
\* other exception passes, None stays None; two products are ordered once
\* more and the forbidden structures are looked for on both sides.
ProductStructures(fam, tagged, r) ==
    IF r.status = "InvalidActionError" THEN r
    ELSE IF r.status # "ok" THEN r
    ELSE IF r.products = <<>> THEN [r EXCEPT !.status = "None"]
    ELSE IF \E f \in fam.forbidden :
               \/ \E c \in Components(tagged) : MatchesForbidden(Restrict(tagged, c), f)
               \/ \E c \in Components(r.struct) : MatchesForbidden(Restrict(r.struct, c), f)
    THEN FamilyResult(r.struct, <<>>, "None")
    ELSE FamilyResult(r.struct, PlaceStarOneFirst(r.struct, r.products), "ok")

\* KineticsGroups.__generateProductStructures.  `reactants` is the merged
\* list of reactant structures and `map` the label each mapping gives each
\* atom; the caller's structures carry these labels afterwards.
generateProductStructures(fam, forwardRecipe, hasReverseRecipe, reverse, reactants, map, forward, order) ==
    ProductStructures(fam, TagAtoms(clearLabeledAtoms(reactants), map),
        applyRecipe(fam, forwardRecipe, hasReverseRecipe, reverse,
                    TagAtoms(clearLabeledAtoms(reactants), map), forward, order))

\* A variant that compares reactants and products in the order given only.
createReactionDirectPairing(reactants, products) ==
    LET same == IF Len(reactants) = 1 /\ Len(products) = 1
                THEN IsIsomorphic(reactants[1], products[1])
                ELSE IF Len(reactants) = 2 /\ Len(products) = 2
                THEN IsIsomorphic(reactants[1], products[1]) /\ IsIsomorphic(reactants[2], products[2])
                ELSE FALSE
    IN IF same THEN <<>>
       ELSE <<[reactants |-> reactants, products |-> products, degeneracy |-> 1]>>

\* KineticsGroups.__createReaction: "None" when the products are the
\* reactants again, else a reaction holding copies of both.
createReaction(reactants, products) ==
    LET same == IF Len(reactants) = 1 /\ Len(products) = 1
                THEN IsIsomorphic(reactants[1], products[1])
                ELSE IF Len(reactants) = 2 /\ Len(products) = 2
                THEN \/ IsIsomorphic(reactants[1], products[1]) /\ IsIsomorphic(reactants[2], products[2])
                     \/ IsIsomorphic(reactants[1], products[2]) /\ IsIsomorphic(reactants[2], products[1])
                ELSE FALSE
    IN IF same THEN <<>>
       ELSE <<[reactants |-> reactants, products |-> products, degeneracy |-> 1]>>

\* The labels carried by the atoms of the i-th reactant pattern of a template.
TemplateCenters(fam, forward, i) ==
    LET n == TemplateReactants(fam, forward)
    IN IF Lower(fam.label) = "r_recombination" /\ forward THEN {"*"}
       ELSE IF fam.ownReverse
       THEN (IF n = 1 THEN {"*1", "*2", "*3"} ELSE IF i = 1 THEN {"*1", "*2"} ELSE {"*3"})
       ELSE (IF n = 1 THEN {"*1", "*2"} ELSE IF i = 1 THEN {"*1"} ELSE {"*2"})

\* A set as a list, in some fixed order.
RECURSIVE SetToSeq(_)
SetToSeq(S) ==
    IF S = {} THEN <<>>
    ELSE LET x == CHOOSE y \in S : TRUE IN <<x>> \o SetToSeq(S \ {x})

\* The atom sets of the reactant molecules, in atom order.
RECURSIVE MoleculesOf(_)
MoleculesOf(comps) ==
    IF comps = {} THEN <<>>
    ELSE LET first == CHOOSE c \in comps :
                         \A d \in comps : \E a \in c : \A b \in d : a <= b
         IN <<first>> \o MoleculesOf(comps \ {first})

\* __matchReactantToTemplate: the mappings of a molecule of s onto a reactant
\* pattern, each given as the labels it hands to the molecule's atoms.  The
\* pattern's labeled atoms may fall on any atoms of the molecule, except that
\* a pattern of a family with `bonded` set has a bond between '*1' and '*2'.
matchReactantToTemplate(fam, s, molecule, centers) ==
    SetToSeq({m \in [molecule -> centers \cup {""}] :
                 /\ \A c \in centers : Cardinality({a \in molecule : m[a] = c}) = 1
                 /\ (fam.bonded /\ {"*1", "*2"} \subseteq centers) =>
                        \E a, b \in molecule : m[a] = "*1" /\ m[b] = "*2" /\ hasBond(s, a, b)})

\* The place an atom takes when the two reactants are handed over in the
\* other order: the atoms of the second molecule first.
SwappedIndex(mols, a) ==
    IF a \in mols[2] THEN Cardinality({b \in mols[2] : b <= a})
    ELSE Cardinality(mols[2]) + Cardinality({b \in mols[1] : b <= a})

\* The reactant list [B, A] for the list [A, B] that s stands for; s itself
\* when it is not two molecules.
SwapReactants(s) ==
    LET mols == MoleculesOf(Components(s))
    IN IF Len(mols) # 2 THEN s
       ELSE [atoms |-> s.atoms,
             label |-> [i \in s.atoms |->
                           s.label[CHOOSE a \in s.atoms : SwappedIndex(mols, a) = i]],
             rad   |-> [i \in s.atoms |->
                           s.rad[CHOOSE a \in s.atoms : SwappedIndex(mols, a) = i]],
             bond  |-> [e \in {{SwappedIndex(mols, a) : a \in d} : d \in DOMAIN s.bond} |->
                           s.bond[CHOOSE d \in DOMAIN s.bond :
                                      {SwappedIndex(mols, a) : a \in d} = e]]]

\* The labels two mappings (or one) give the atoms of the merged reactants.
JoinMaps(s, mapA, mapB) ==
    [a \in s.atoms |-> IF a \in DOMAIN mapA THEN mapA[a]
                       ELSE IF a \in DOMAIN mapB THEN mapB[a] ELSE ""]

\* All pairs (mapA, mapB) in the order of the two nested loops.
PairMaps(s, mappingsA, mappingsB) ==
    [k \in 1..(Len(mappingsA) * Len(mappingsB)) |->
        JoinMaps(s, mappingsA[((k - 1) \div Len(mappingsB)) + 1],
                    mappingsB[((k - 1) % Len(mappingsB)) + 1])]

\* A variant that picks the branch by the number of reactants alone, never
\* looking at the size of the template.
CandidatesIgnoringTemplate(fam, s, forward) ==
    LET mols == MoleculesOf(Components(s))
    IN IF Len(mols) = 1
       THEN LET mappings == matchReactantToTemplate(fam, s, mols[1], TemplateCenters(fam, forward, 1))
            IN [k \in 1..Len(mappings) |-> JoinMaps(s, mappings[k], <<>>)]
       ELSE IF Len(mols) = 2
       THEN PairMaps(s, matchReactantToTemplate(fam, s, mols[1], TemplateCenters(fam, forward, 1)),
                        matchReactantToTemplate(fam, s, mols[2], TemplateCenters(fam, forward, 2)))
       ELSE <<>>

\* A variant without the pass that stores the reactants as B + A.
CandidatesDirectOnly(fam, s, forward) ==
    LET mols == MoleculesOf(Components(s))
        n == TemplateReactants(fam, forward)
    IN IF Len(mols) = 1 /\ n = 1
       THEN LET mappings == matchReactantToTemplate(fam, s, mols[1], TemplateCenters(fam, forward, 1))
            IN [k \in 1..Len(mappings) |-> JoinMaps(s, mappings[k], <<>>)]
       ELSE IF Len(mols) = 2 /\ n = 2
       THEN PairMaps(s, matchReactantToTemplate(fam, s, mols[1], TemplateCenters(fam, forward, 1)),
                        matchReactantToTemplate(fam, s, mols[2], TemplateCenters(fam, forward, 2)))
       ELSE <<>>

\* The candidates of generateReactions, in the order its loops visit them:
\* one per mapping (pair), the swapped assignment of two reactants after the
\* direct one.  None when the reactant count does not fit the template.
Candidates(fam, s, forward) ==
    LET mols == MoleculesOf(Components(s))
        n == TemplateReactants(fam, forward)
    IN IF Len(mols) = 1 /\ n = 1
       THEN LET mappings == matchReactantToTemplate(fam, s, mols[1], TemplateCenters(fam, forward, 1))
            IN [k \in 1..Len(mappings) |-> JoinMaps(s, mappings[k], <<>>)]
       ELSE IF Len(mols) = 2 /\ n = 2
       THEN PairMaps(s, matchReactantToTemplate(fam, s, mols[1], TemplateCenters(fam, forward, 1)),
                        matchReactantToTemplate(fam, s, mols[2], TemplateCenters(fam, forward, 2)))
            \o PairMaps(s, matchReactantToTemplate(fam, s, mols[1], TemplateCenters(fam, forward, 2)),
                           matchReactantToTemplate(fam, s, mols[2], TemplateCenters(fam, forward, 1)))
       ELSE <<>>

\* The structures one allyl shift away from s: a radical on a, a single bond
\* a-b and a double bond b=c become a double bond a=b, a single bond b-c and
\* a radical on c.
AdjacentResonanceIsomers(s) ==
    {[s EXCEPT !.bond[{a, b}] = "D", !.bond[{b, c}] = "S",
               !.rad[a] = @ - 1, !.rad[c] = @ + 1] :
        <<a, b, c>> \in {p \in s.atoms \X s.atoms \X s.atoms :
            /\ p[1] # p[2] /\ p[2] # p[3] /\ p[1] # p[3]
            /\ s.rad[p[1]] >= 1
            /\ hasBond(s, p[1], p[2]) /\ s.bond[{p[1], p[2]}] = "S"
            /\ hasBond(s, p[2], p[3]) /\ s.bond[{p[2], p[3]}] = "D"}}

\* Everything reachable from a set of structures by allyl shifts.
RECURSIVE ResonanceClosure(_)
ResonanceClosure(set) ==
    LET more == set \cup UNION {AdjacentResonanceIsomers(s) : s \in set}
    IN IF more = set THEN set ELSE ResonanceClosure(more)

\* product.generateResonanceIsomers(): the structure itself first, then the
\* others of its resonance class.
generateResonanceIsomers(s) == <<s>> \o SetToSeq(ResonanceClosure({s}) \ {s})

\* A variant that compares the products in the order listed only.
ProductsMatchDirectPairing(isomers, products) ==
    IF Len(products) = 1 /\ Len(isomers) = 1
    THEN \E k \in DOMAIN isomers[1] : IsIsomorphic(products[1], isomers[1][k])
    ELSE IF Len(products) = 2 /\ Len(isomers) = 2
    THEN \E k \in DOMAIN isomers[1] : \E l \in DOMAIN isomers[2] :
            IsIsomorphic(products[1], isomers[1][k]) /\ IsIsomorphic(products[2], isomers[2][l])
    ELSE FALSE

\* The comparison of the duplicate search: the products of a later reaction
\* against the resonance isomers of the products of an earlier one.
ProductsMatch(isomers, products) ==
    IF Len(products) = 1 /\ Len(isomers) = 1
    THEN \E k \in DOMAIN isomers[1] : IsIsomorphic(products[1], isomers[1][k])
    ELSE IF Len(products) = 2 /\ Len(isomers) = 2
    THEN \E k \in DOMAIN isomers[1] : \E l \in DOMAIN isomers[2] :
            \/ IsIsomorphic(products[1], isomers[1][k]) /\ IsIsomorphic(products[2], isomers[2][l])
            \/ IsIsomorphic(products[1], isomers[2][l]) /\ IsIsomorphic(products[2], isomers[1][k])
    ELSE FALSE

\* rxnList without its index-th entry.
RemoveAt(list, index) == SubSeq(list, 1, index - 1) \o SubSeq(list, index + 1, Len(list))

\* A variant that removes a duplicate without counting it.
RECURSIVE RemoveDuplicatesOfUncounted(_, _, _)
RemoveDuplicatesOfUncounted(rxnList, index0, index) ==
    IF index > Len(rxnList) THEN rxnList
    ELSE LET isomers == [k \in DOMAIN rxnList[index0].products |->
                            generateResonanceIsomers(rxnList[index0].products[k])]
         IN IF ProductsMatch(isomers, rxnList[index].products)
            THEN RemoveDuplicatesOfUncounted(RemoveAt(rxnList, index), index0, index)
            ELSE RemoveDuplicatesOfUncounted(rxnList, index0, index + 1)

\* The inner loop of the duplicate removal.
RECURSIVE RemoveDuplicatesOf(_, _, _)
RemoveDuplicatesOf(rxnList, index0, index) ==
    IF index > Len(rxnList) THEN rxnList
    ELSE LET isomers == [k \in DOMAIN rxnList[index0].products |->
                            generateResonanceIsomers(rxnList[index0].products[k])]
         IN IF ProductsMatch(isomers, rxnList[index].products)
            THEN RemoveDuplicatesOf(
                     [RemoveAt(rxnList, index) EXCEPT ![index0].degeneracy = @ + 1],
                     index0, index)
            ELSE RemoveDuplicatesOf(rxnList, index0, index + 1)

\* The outer loop of the duplicate removal.
RECURSIVE RemoveDuplicates(_, _)
RemoveDuplicates(rxnList, index0) ==
    IF index0 > Len(rxnList) THEN rxnList
    ELSE RemoveDuplicates(RemoveDuplicatesOf(rxnList, index0, index0 + 1), index0 + 1)

\* The final correction of the degeneracies, keyed on the family label.
HalveDegeneracy(fam, rxnList) ==
    IF Lower(fam.label) = "unimolecular homolysis"
    THEN [k \in DOMAIN rxnList |-> [rxnList[k] EXCEPT !.degeneracy = @ \div 2]]
    ELSE rxnList

\* What generateReactions hands back: the list, the exception if one was
\* raised ("ok" otherwise), the number of candidates it generated, and the
\* caller's reactant structures as the call leaves them.
Generated(list, st, n, s) ==
    [rxnList |-> list, status |-> st, candidates |-> n, reactants |-> s,
     accumulated |-> <<>>]

\* One pass of the mapping loops, r being what __generateProductStructures
\* did for the candidate: an exception ends the call, product structures
\* become a reaction unless the candidate changes nothing.
Candidate(acc, tagged, mols, r) ==
    IF r.status = "None"
    THEN [acc EXCEPT !.candidates = @ + 1, !.reactants = tagged]
    ELSE IF r.status # "ok"
    THEN [acc EXCEPT !.candidates = @ + 1, !.reactants = tagged,
                     !.status = r.status, !.rxnList = <<>>]
    ELSE [acc EXCEPT !.candidates = @ + 1, !.reactants = tagged,
                     !.rxnList = @ \o createReaction(
                         [k \in DOMAIN mols |-> Restrict(tagged, mols[k])],
                         [k \in DOMAIN r.products |-> Restrict(r.struct, r.products[k])])]

\* The mapping loops of generateReactions over the candidates.
RECURSIVE RunCandidates(_, _, _, _, _, _, _, _, _)
RunCandidates(fam, forwardRecipe, hasReverseRecipe, reverse, s, forward, order, cands, acc) ==
    IF cands = <<>> \/ acc.status # "ok" THEN acc
    ELSE RunCandidates(fam, forwardRecipe, hasReverseRecipe, reverse, s, forward, order,
             Tail(cands),
             Candidate(acc, TagAtoms(clearLabeledAtoms(s), Head(cands)),
                       MoleculesOf(Components(s)),
                       generateProductStructures(fam, forwardRecipe, hasReverseRecipe, reverse,
                                                 s, Head(cands), forward, order)))

\* The degeneracies of a list of reactions, in order.
Degeneracies(rxnList) == [k \in DOMAIN rxnList |-> rxnList[k].degeneracy]

\* generateReactions after the mapping loops: duplicates are merged and the
\* degeneracies corrected, unless an exception ended the call.
FinishReactions(fam, run) ==
    IF run.status # "ok" THEN run
    ELSE [run EXCEPT !.rxnList = HalveDegeneracy(fam, RemoveDuplicates(@, 1)),
                     !.accumulated = Degeneracies(RemoveDuplicates(run.rxnList, 1))]

\* KineticsGroups.generateReactions for reactants given one structure each
\* (every isomer list has one entry, every reactant is its own object).  The
\* structures carry no hydrogen atoms, so making them explicit before and
\* implicit after the loops changes nothing here.
generateReactions(fam, forwardRecipe, hasReverseRecipe, reverse, s, forward, order) ==
    IF ~forward /\ ~HasReverseTemplate(fam) THEN Generated(<<>>, "ok", 0, s)
    ELSE FinishReactions(fam,
             RunCandidates(fam, forwardRecipe, hasReverseRecipe, reverse, s, forward, order,
                           Candidates(fam, s, forward), Generated(<<>>, "ok", 0, s)))

-----------------------------------------------------------------------------
(* The family session: a recipe is built, a family is loaded around it,     *)
(* and one of the family's operations is called on reactant structures.    *)

\* The actions the recipes of the families are built from.
FamilyAlphabet ==
    {<<"FORM_BOND", "*1", "S", "*2">>, <<"BREAK_BOND", "*1", "S", "*2">>,
     <<"BREAK_BOND", "*2", "S", "*2">>, <<"CHANGE_BOND", "*1", "1", "*2">>,
     <<"GAIN_RADICAL", "*1", "1">>, <<"LOSE_RADICAL", "*2", "1">>}

\* The families loaded: each label with the reverse the database gives it
\* (Disproportionation with either), one or two reactants and products,
\* patterns with or without a bond between '*1' and '*2', and for
\* Disproportionation a forbidden structure (a double bond, or a triple one).
Families ==
    {f \in [label : FamilyLabels, ownReverse : BOOLEAN, nReactants : {1, 2},
            nProducts : {1, 2}, forbidden : {{}, {"D"}, {"T"}}, bonded : BOOLEAN] :
        /\ f.label \in {"R_Recombination", "Unimolecular homolysis"} => ~f.ownReverse
        /\ f.label \in {"H_Abstraction", "intra_H_migration"} => f.ownReverse
        /\ (f.forbidden # {}) = (f.label = "Disproportionation")}

\* Labelings the reactant structures arrive with.
FamilyLabelings == {<<"*1", "*2", "">>, <<"*2", "*1", "*3">>, <<"*", "*", "">>}

\* The allyl radical: a double bond 1=2, a single bond 2-3 and the radical on
\* atom 3; its other resonance form has them the other way round.
Allyl(labels) ==
    [Structure(labels, [e \in {{1, 2}, {2, 3}} |-> IF e = {1, 2} THEN "D" ELSE "S"], 0)
        EXCEPT !.rad[3] = 1]

\* Reactant structures: one, two or three molecules over Atoms with a
\* radical on every atom, and the allyl radical.
FamilyStructs ==
    {Structure(l, b, 1) : l \in FamilyLabelings, b \in BondChoices}
    \cup {Allyl(l) : l \in FamilyLabelings}

\* Reactant structures that still carry the labels of an earlier mapping.
LabeledBefore == {s \in FamilyStructs : s.label = <<"*2", "*1", "*3">>}

\* The orders in which split() may list the components: by lowest atom, or
\* by highest.
SplitPriorities == {[a \in Atoms |-> a], [a \in Atoms |-> 0 - a]}

InitFamily ==
    /\ recipe = <<>>
    /\ other = <<>>
    /\ otherKind = "none"
    /\ struct = NoStruct
    /\ orig = NoStruct
    /\ status = "none"
    /\ log = <<>>
    /\ done = 0
    /\ struct2 = NoStruct
    /\ status2 = "none"
    /\ log2 = <<>>
    /\ pc = "build"
    /\ family = NoFamily
    /\ isForward = TRUE
    /\ productSets = <<>>
    /\ reactionList = <<>>
    /\ generated = 0
    /\ accumulated = <<>>
    /\ KineticsUnused
    /\ QueriesUnused
    /\ loaded = NotLoaded
    /\ DatabaseUnused

\* The caller takes what applyRecipe or __generateProductStructures returned.
ReturnProducts(r) ==
    /\ struct' = r.struct
    /\ productSets' = r.products
    /\ status' = r.status

\* The caller sees what applyForward or applyReverse did to its structure.
ReturnOutcome(r) ==
    /\ struct' = r.struct
    /\ status' = r.status
    /\ log' = r.log
    /\ done' = r.done

\* The caller takes what generateReactions returned.
ReturnReactions(g) ==
    /\ reactionList' = g.rxnList
    /\ generated' = g.candidates
    /\ accumulated' = g.accumulated
    /\ status' = g.status
    /\ orig' = g.reactants

\* KineticsGroups.load: the recipe read becomes the forward recipe; unless
\* the family is its own reverse, the reverse recipe is derived from it.
Load(fam) ==
    /\ pc = "build"
    /\ family' = fam
    /\ other' = IF fam.ownReverse THEN <<>> ELSE getReverse(recipe)
    /\ otherKind' = IF fam.ownReverse THEN "none" ELSE "rev"
    /\ loaded' = LoadTemplates(fam)
    /\ pc' = "loaded"
    /\ UNCHANGED <<recipe, struct, orig, status, log, done, struct2, status2, log2>>
    /\ UNCHANGED <<isForward, productSets, reactionList, generated, accumulated>>
    /\ UNCHANGED kinvars
    /\ UNCHANGED qvars
    /\ UNCHANGED dbvars

\* KineticsGroups.loadOld: the recipe read becomes the forward recipe, the
\* templates are built; the reverse recipe stays as __init__ left it.
LoadOld(fam) ==
    /\ pc = "build"
    /\ family' = fam
    /\ loaded' = LoadOldTemplates(fam)
    /\ pc' = "loadedOld"
    /\ UNCHANGED <<recipe, other, otherKind, struct, orig, status, log, done,
                   struct2, status2, log2>>
    /\ UNCHANGED <<isForward, productSets, reactionList, generated, accumulated>>
    /\ UNCHANGED kinvars
    /\ UNCHANGED qvars
    /\ UNCHANGED dbvars

\* family.forwardRecipe.applyForward(struct) or .applyReverse(struct), called
\* on the recipe of the family directly.
ApplyFamilyRecipeTo(s, doForward) ==
    /\ pc = "loaded"
    /\ ReturnOutcome(Apply(recipe, s, doForward))
    /\ orig' = s
    /\ isForward' = doForward
    /\ pc' = "apply"
    /\ UNCHANGED <<recipe, other, otherKind, struct2, status2, log2>>
    /\ UNCHANGED <<family, productSets, reactionList, generated, accumulated>>
    /\ UNCHANGED kinvars
    /\ UNCHANGED qvars
    /\ UNCHANGED dbvars
    /\ UNCHANGED loaded

\* family.applyRecipe(reactantStructures, forward) on tagged structures; the
\* caller's structures are copied, struct is the merged copy as edited.
ApplyRecipe(s, fwd, order) ==
    /\ pc = "loaded"
    /\ ReturnProducts(applyRecipe(family, recipe, otherKind = "rev", other, s, fwd, order))
    /\ orig' = s
    /\ isForward' = fwd
    /\ pc' = "applyRecipe"
    /\ UNCHANGED <<recipe, other, otherKind, log, done, struct2, status2, log2>>
    /\ UNCHANGED <<family, reactionList, generated, accumulated>>
    /\ UNCHANGED kinvars
    /\ UNCHANGED qvars
    /\ UNCHANGED dbvars
    /\ UNCHANGED loaded

\* family.__generateProductStructures(reactantStructures, maps, forward); the
\* caller's structures carry the labels of the maps afterwards.
GenerateProductStructures(s, map, fwd, order) ==
    /\ pc = "loaded"
    /\ ReturnProducts(generateProductStructures(family, recipe, otherKind = "rev", other,
                                                s, map, fwd, order))
    /\ orig' = TagAtoms(clearLabeledAtoms(s), map)
    /\ isForward' = fwd
    /\ pc' = "generateProductStructures"
    /\ UNCHANGED <<recipe, other, otherKind, log, done, struct2, status2, log2>>
    /\ UNCHANGED <<family, reactionList, generated, accumulated>>
    /\ UNCHANGED kinvars
    /\ UNCHANGED qvars
    /\ UNCHANGED dbvars
    /\ UNCHANGED loaded

\* family.generateReactions(reactants, forward)
GenerateReactions(s, fwd, order) ==
    /\ pc = "loaded"
    /\ ReturnReactions(generateReactions(family, recipe, otherKind = "rev", other, s, fwd, order))
    /\ isForward' = fwd
    /\ pc' = "generateReactions"
    /\ UNCHANGED <<recipe, other, otherKind, struct, log, done, struct2, status2, log2>>
    /\ UNCHANGED <<family, productSets>>
    /\ UNCHANGED kinvars
    /\ UNCHANGED qvars
    /\ UNCHANGED dbvars
    /\ UNCHANGED loaded

NextFamily ==
    \/ \E action \in FamilyAlphabet : AddAction(action)
    \/ \E fam \in Families : Load(fam)
    \/ \E fam \in Families : LoadOld(fam)
    \/ \E s \in FamilyStructs, doForward \in BOOLEAN : ApplyFamilyRecipeTo(s, doForward)
    \/ \E s \in FamilyStructs, fwd \in BOOLEAN, order \in SplitPriorities :
          ApplyRecipe(s, fwd, order)
    \/ \E s \in LabeledBefore, l \in FamilyLabelings, fwd \in BOOLEAN, order \in SplitPriorities :
          GenerateProductStructures(s, [a \in Atoms |-> l[a]], fwd, order)
    \/ \E s \in FamilyStructs, fwd \in BOOLEAN, order \in SplitPriorities :
          GenerateReactions(s, fwd, order)

SpecFamily == InitFamily /\ [][NextFamily]_vars

-----------------------------------------------------------------------------
(* KineticsGroups: the trees of groups, the rate lookup and the fit.       *)

\* The entries of the trees: Y with the children Y1 (itself with the child
\* Y1a) and Y2, X with the child X1, R with the child R1.
Nodes == {"Y", "Y1", "Y1a", "Y2", "X", "X1", "R", "R1"}

\* No node (None where a node is expected).
NoNode == ""

\* self.tree.parent: the parent of every node, None for a top-level node.
parent ==
    [n \in Nodes |-> CASE n = "Y1" -> "Y" [] n = "Y1a" -> "Y1" [] n = "Y2" -> "Y"
                        [] n = "X1" -> "X" [] n = "R1" -> "R" [] OTHER -> NoNode]

\* The children of a node, in the order of the tree.
children(n) ==
    CASE n = "Y" -> <<"Y1", "Y2">> [] n = "Y1" -> <<"Y1a">> [] n = "X" -> <<"X1">>
      [] n = "R" -> <<"R1">> [] OTHER -> <<>>

\* self.ancestors(node): from the parent of the node up to its root.
RECURSIVE ancestors(_)
ancestors(n) == IF parent[n] = NoNode THEN <<>> ELSE <<parent[n]>> \o ancestors(parent[n])

\* self.descendants(node): every node below it.
descendants(n) == {m \in Nodes : \E k \in DOMAIN ancestors(m) : ancestors(m)[k] = n}

\* group.getLabeledAtoms() of a top-level group: the labels its atoms carry.
getLabeledAtoms(root) ==
    CASE root = "Y" -> {"*1"} [] root = "X" -> {"*2"} [] root = "R" -> {"*"} [] OTHER -> {}

\* self.descendTree(reactant, atoms, root): None when the root does not match
\* the reactant, else the node reached by moving to the first matching child
\* for as long as there is one.
RECURSIVE descendTree(_, _)
descendTree(reactant, root) ==
    IF root \notin reactant.matches THEN NoNode
    ELSE LET next == {k \in DOMAIN children(root) : children(root)[k] \in reactant.matches}
         IN IF next = {} THEN root
            ELSE descendTree(reactant, children(root)[CHOOSE k \in next : \A l \in next : k <= l])

\* The removal of duplicates from the top-level nodes, the first of each kept.
RECURSIVE RemoveDuplicateRoots(_, _)
RemoveDuplicateRoots(roots, temporary) ==
    IF roots = <<>> THEN temporary
    ELSE RemoveDuplicateRoots(Tail(roots),
             IF \E k \in DOMAIN temporary : temporary[k] = Head(roots)
             THEN temporary ELSE Append(temporary, Head(roots)))

\* The inner loop of getReactionTemplate: the nodes the reactants from the
\* i-th on give for a top-level node; a reactant without all the labels of
\* the top-level group is not tried, and one that does not match adds nothing.
RECURSIVE MatchReactants(_, _, _)
MatchReactants(entry, reactants, i) ==
    IF i > Len(reactants) THEN <<>>
    ELSE IF ~(getLabeledAtoms(entry) \subseteq reactants[i].labels)
    THEN MatchReactants(entry, reactants, i + 1)
    ELSE IF descendTree(reactants[i], entry) = NoNode
    THEN MatchReactants(entry, reactants, i + 1)
    ELSE <<descendTree(reactants[i], entry)>> \o MatchReactants(entry, reactants, i + 1)

\* The outer loop of getReactionTemplate over the top-level nodes.
RECURSIVE MatchRoots(_, _)
MatchRoots(forwardTemplate, reactants) ==
    IF forwardTemplate = <<>> THEN <<>>
    ELSE MatchReactants(Head(forwardTemplate), reactants, 1)
             \o MatchRoots(Tail(forwardTemplate), reactants)

\* The top-level nodes the final test counts: self.top, and its first node
\* once more for the family labelled R_Recombination.
ExpectedTemplate(fam, roots) ==
    IF Lower(fam.label) = "r_recombination" THEN Append(roots, roots[1]) ELSE roots

\* The final test of getReactionTemplate: as many nodes matched as top-level
\* nodes are expected, or UndeterminableKineticsError.
TemplateChecked(fam, roots, matched) ==
    IF Len(matched) # Len(ExpectedTemplate(fam, roots))
    THEN [template |-> <<>>, status |-> "UndeterminableKineticsError"]
    ELSE [template |-> matched, status |-> "ok"]

\* KineticsGroups.getReactionTemplate for a family with the top-level nodes
\* `roots` (one or two of them, so that the assertion on a duplicate holds).
getReactionTemplate(fam, roots, reactants) ==
    TemplateChecked(fam, roots, MatchRoots(RemoveDuplicateRoots(roots, <<>>), reactants))

\* getAllCombinations(nodeLists): one list per choice of a node from each
\* list, the last list varying fastest.
RECURSIVE getAllCombinations(_)
getAllCombinations(nodeLists) ==
    IF nodeLists = <<>> THEN <<<<>>>>
    ELSE LET rest == getAllCombinations(Tail(nodeLists))
             first == Head(nodeLists)
         IN [k \in 1..(Len(first) * Len(rest)) |->
                <<first[((k - 1) \div Len(rest)) + 1]>> \o rest[((k - 1) % Len(rest)) + 1]]

\* self.library.getData(item): the entry stored for the tuple (its index
\* stands for it), or None.
getData(lib, item) == IF item \in DOMAIN lib THEN lib[item] ELSE None

\* item.reverse()
Reverse(item) == [k \in DOMAIN item |-> item[Len(item) + 1 - k]]

\* The ancestor chains of the matched nodes, each from the node up to its root.
NodeLists(matched) == [k \in DOMAIN matched |-> <<matched[k]>> \o ancestors(matched[k])]

\* The loop of getKinetics over the tuples from the i-th on.  The name
\* symmetric_tree it reads is bound nowhere in the module: `binding` is what
\* the star imports make of it, "unbound" (the read raises NameError), or the
\* value "True" or "False".
RECURSIVE ProbeItems(_, _, _, _, _)
ProbeItems(lib, items, i, binding, acc) ==
    IF i > Len(items) THEN acc
    ELSE IF binding = "unbound"
    THEN [found |-> <<>>, status |-> "NameError"]
    ELSE ProbeItems(lib, items, i + 1, binding,
             [acc EXCEPT !.found =
                 @ \o (IF getData(lib, items[i]) # None
                       THEN <<getData(lib, items[i])>> ELSE <<>>)
                   \o (IF binding = "True" /\ getData(lib, Reverse(items[i])) # None
                       THEN <<getData(lib, Reverse(items[i]))>> ELSE <<>>)])

\* The end of getKinetics: the entry with the highest index of those found,
\* or UndeterminableKineticsError when none was.
BestKinetics(probe) ==
    IF probe.status # "ok" THEN [kinetics |-> None, status |-> probe.status]
    ELSE IF probe.found = <<>>
    THEN [kinetics |-> None, status |-> "UndeterminableKineticsError"]
    ELSE [kinetics |-> CHOOSE x \in {probe.found[k] : k \in DOMAIN probe.found} :
                           \A k \in DOMAIN probe.found : probe.found[k] <= x,
          status |-> "ok"]

\* getKinetics once the template is known.
KineticsOf(lib, t, binding) ==
    IF t.status # "ok" THEN [kinetics |-> None, status |-> t.status]
    ELSE BestKinetics(ProbeItems(lib, getAllCombinations(NodeLists(t.template)), 1, binding,
                                 [found |-> <<>>, status |-> "ok"]))

\* KineticsGroups.getKinetics
getKinetics(fam, roots, lib, reactants, binding) ==
    KineticsOf(lib, getReactionTemplate(fam, roots, reactants), binding)

\* entry.data: None, or a KineticsData of values and their uncertainties.
NoData == [isNone |-> TRUE, kdata |-> <<>>, uncertainties |-> <<>>]
KineticsData(values, uncertainties) ==
    [isNone |-> FALSE, kdata |-> values, uncertainties |-> uncertainties]

\* The entries fitGroupValues goes through: the top-level nodes and their
\* descendants.
Entries(roots) ==
    {roots[k] : k \in DOMAIN roots} \cup UNION {descendants(roots[k]) : k \in DOMAIN roots}

\* The groups of a template and their ancestors, the top-level nodes left out.
FittedGroups(roots, tmpl) ==
    UNION {{tmpl[g]} \cup {ancestors(tmpl[g])[i] : i \in 1..(Len(ancestors(tmpl[g])) - 1)} :
              g \in {h \in DOMAIN tmpl : \A k \in DOMAIN roots : tmpl[h] # roots[k]}}

\* groupList: the groups the fit has a parameter for.
GroupList(roots, tmpls) == UNION {FittedGroups(roots, tmpls[k]) : k \in DOMAIN tmpls}

\* The number of rows of the least-squares matrix: one for every combination
\* of the groups of a template and their ancestors.
RECURSIVE MatrixRows(_)
MatrixRows(tmpls) ==
    IF tmpls = <<>> THEN 0
    ELSE Len(getAllCombinations(NodeLists(Head(tmpls)))) + MatrixRows(Tail(tmpls))

\* A variant of a row with a coefficient 1 for every group on the paths from
\* the groups of the template up to their roots.
ArowOverWholePaths(roots, tmpls, index, groups) ==
    [template |-> index,
     groups |-> UNION {{tmpls[index][g]} \cup
                           {ancestors(tmpls[index][g])[i] : i \in DOMAIN ancestors(tmpls[index][g])} :
                       g \in DOMAIN tmpls[index]}
                \cap GroupList(roots, tmpls)]

\* Arow and brow for one combination `groups` of the template of the given
\* index: the groups of groupList with the coefficient 1 (the intercept has
\* it in every row), and the template whose rate is the right-hand side.
Arow(roots, tmpls, index, groups) ==
    [template |-> index,
     groups |-> {groups[i] : i \in DOMAIN groups} \cap GroupList(roots, tmpls)]

\* The rows of one template: one for every combination of a group or
\* ancestor for each group of the template.
TemplateRows(roots, tmpls, index, combinations) ==
    [c \in DOMAIN combinations |-> Arow(roots, tmpls, index, combinations[c])]

\* The least-squares matrix, from the template of the given index on.
RECURSIVE LeastSquaresRows(_, _, _)
LeastSquaresRows(roots, tmpls, index) ==
    IF index > Len(tmpls) THEN <<>>
    ELSE TemplateRows(roots, tmpls, index, getAllCombinations(NodeLists(tmpls[index])))
             \o LeastSquaresRows(roots, tmpls, index + 1)

\* The groups whose fitted values are added to the intercept for the
\* modelled rate of a template: its own groups that are in groupList, each
\* as often as the template names it.
RECURSIVE ModelledGroups(_, _, _)
ModelledGroups(roots, tmpls, tmpl) ==
    IF tmpl = <<>> THEN <<>>
    ELSE (IF Head(tmpl) \in GroupList(roots, tmpls) THEN <<Head(tmpl)>> ELSE <<>>)
         \o ModelledGroups(roots, tmpls, Tail(tmpl))

\* A variant of the update that leaves a zero where there is nothing to fit.
FittedEntryDefaultingToZero(roots, tmpls, temps, entry) ==
    IF entry = roots[1] \/ entry \in GroupList(roots, tmpls)
    THEN KineticsData([t \in DOMAIN temps |-> "fitted"], [t \in DOMAIN temps |-> "interval"])
    ELSE KineticsData([t \in DOMAIN temps |-> "zero"], [t \in DOMAIN temps |-> "interval"])

\* What the fit stores on an entry when there are temperatures and rows: the
\* intercept on the first top-level node, the group value on a group of
\* groupList, at every temperature; None on every other entry.
FittedEntry(roots, tmpls, temps, entry) ==
    IF entry = roots[1] \/ entry \in GroupList(roots, tmpls)
    THEN KineticsData([t \in DOMAIN temps |-> "fitted"], [t \in DOMAIN temps |-> "interval"])
    ELSE NoData

\* KineticsGroups.fitGroupValues: entry.data of every node afterwards, and
\* "None" when the fit returns early for want of rows.  Without temperatures
\* the loop does not run and every entry gets data with empty lists.
fitGroupValues(roots, tmpls, temps, before) ==
    IF temps # <<>> /\ MatrixRows(tmpls) = 0
    THEN [data |-> before, status |-> "None", A |-> <<>>, kmodel |-> <<>>]
    ELSE [data |-> [n \in Nodes |->
                       IF n \notin Entries(roots) THEN before[n]
                       ELSE IF temps = <<>> THEN KineticsData(<<>>, <<>>)
                       ELSE FittedEntry(roots, tmpls, temps, n)],
          status |-> "ok",
          A |-> IF temps = <<>> THEN <<>> ELSE LeastSquaresRows(roots, tmpls, 1),
          kmodel |-> IF temps = <<>> THEN <<>>
                     ELSE [k \in DOMAIN tmpls |-> ModelledGroups(roots, tmpls, tmpls[k])]]

\* The templates of the entries of an old rate library the fit can use: those
\* with ArrheniusEP kinetics whose alpha is zero; the others are skipped with
\* a warning.
RECURSIVE UsableTemplates(_)
UsableTemplates(oldEntries) ==
    IF oldEntries = <<>> THEN <<>>
    ELSE (IF Head(oldEntries).kinetics = "ArrheniusEP" /\ Head(oldEntries).alpha = 0
          THEN <<Head(oldEntries).template>> ELSE <<>>)
         \o UsableTemplates(Tail(oldEntries))

\* The caller unpacks what fitGroupValues returned into four names: None
\* cannot be unpacked.
UnpackFit(f) == IF f.status = "None" THEN [f EXCEPT !.status = "TypeError"] ELSE f

\* fitGroupValuesFromOldLibrary once the old library is parsed: kunits is
\* the unit of a usable entry and stays '' without one, which the assertion
\* rejects (when assertions are compiled in); then the fit is run and its
\* result unpacked.
FitFromOldLibrary(roots, tmpls, temps, before, asserts) ==
    IF asserts /\ tmpls = <<>>
    THEN [data |-> before, status |-> "AssertionError", A |-> <<>>, kmodel |-> <<>>]
    ELSE UnpackFit(fitGroupValues(roots, tmpls, temps, before))

\* KineticsGroups.fitGroupValuesFromOldLibrary
fitGroupValuesFromOldLibrary(roots, oldEntries, temps, before, asserts) ==
    FitFromOldLibrary(roots, UsableTemplates(oldEntries), temps, before, asserts)

\* The top-level nodes a family is loaded with: two trees in either order,
\* one tree, and the tree of a symmetric family named once or twice.
Tops == {<<"Y", "X">>, <<"X", "Y">>, <<"Y">>, <<"R">>, <<"R", "R">>}

\* The families the trees belong to: only the label matters here.
KineticsFamilies ==
    {f \in Families : /\ f.label \in {"R_Recombination", "H_Abstraction"}
                      /\ f.nReactants = 2 /\ f.nProducts = 2 /\ f.bonded}

\* The rate store with the entries given as <<tuple, index>> pairs.
Library(pairs) == [k \in {p[1] : p \in pairs} |-> (CHOOSE p \in pairs : p[1] = k)[2]]

\* The rate stores loaded.
Libraries ==
    {Library({}),
     Library({<<<<"Y", "X">>, 1>>, <<<<"Y1", "X1">>, 2>>}),
     Library({<<<<"Y", "X">>, 1>>, <<<<"Y1", "X">>, 3>>, <<<<"Y1", "X1">>, 2>>}),
     Library({<<<<"X", "Y">>, 1>>, <<<<"R1", "R">>, 2>>}),
     Library({<<<<"R", "R">>, 1>>, <<<<"R", "R1">>, 2>>, <<<<"Y">>, 2>>, <<<<"Y1">>, 1>>})}

\* The reactants of the reactions looked up: the labels a reactant carries
\* and the nodes whose groups match it.
Reactants ==
    [labels : {{"*1"}, {"*2"}, {"*"}},
     matches : {{}, {"Y"}, {"Y", "Y1", "Y1a"}, {"Y", "Y1", "Y2"}, {"X"}, {"X", "X1"},
                {"R"}, {"R", "R1"}}]

\* The reactions looked up: one reactant or two.
Reactions == {<<r>> : r \in Reactants} \cup {<<r, q>> : r, q \in Reactants}

\* The templates of the rates a fit is given.
FitTemplates ==
    {<<"Y", "X">>, <<"Y1", "X">>, <<"Y1a", "X1">>, <<"Y2", "X1">>, <<"X", "Y2">>,
     <<"Y1">>, <<"Y">>, <<"R", "R1">>, <<"R", "R">>, <<"R1", "R1">>}

\* The temperatures a fit is asked at.
Temperatures == {<<>>, <<300>>, <<300, 1000>>}

\* The entries of the old rate libraries: a template with ArrheniusEP
\* kinetics of zero or nonzero alpha, or with kinetics of another class.
OldEntries ==
    [template : {<<"Y1", "X">>, <<"Y">>, <<"R", "R1">>},
     kinetics : {"ArrheniusEP", "Arrhenius"}, alpha : {0, 1}]

\* What entry.data holds before a fit.
Loaded == KineticsData(<<"loaded">>, <<"loaded">>)

InitKinetics ==
    /\ recipe = <<>>
    /\ other = <<>>
    /\ otherKind = "none"
    /\ struct = NoStruct
    /\ orig = NoStruct
    /\ status = "none"
    /\ log = <<>>
    /\ done = 0
    /\ struct2 = NoStruct
    /\ status2 = "none"
    /\ log2 = <<>>
    /\ pc = "loaded"
    /\ family \in KineticsFamilies
    /\ isForward = TRUE
    /\ productSets = <<>>
    /\ reactionList = <<>>
    /\ generated = 0
    /\ accumulated = <<>>
    /\ top \in Tops
    /\ library \in Libraries
    /\ reaction = <<>>
    /\ template = <<>>
    /\ kinetics = None
    /\ templates = <<>>
    /\ Tdata = <<>>
    /\ data = [n \in Nodes |-> Loaded]
    /\ A = <<>>
    /\ kmodel = <<>>
    /\ QueriesUnused
    /\ loaded = LoadTemplates(family)
    /\ DatabaseUnused

\* The caller takes what getReactionTemplate returned or raised.
ReturnTemplate(t) ==
    /\ template' = t.template
    /\ status' = t.status

\* The caller takes what getKinetics returned or raised.
ReturnKinetics(k) ==
    /\ kinetics' = k.kinetics
    /\ status' = k.status

\* The entries hold what fitGroupValues stored.
ReturnFit(f) ==
    /\ data' = f.data
    /\ status' = f.status
    /\ A' = f.A
    /\ kmodel' = f.kmodel

\* family.getReactionTemplate(reaction)
GetReactionTemplate(reactants) ==
    /\ pc = "loaded"
    /\ ReturnTemplate(getReactionTemplate(family, top, reactants))
    /\ reaction' = reactants
    /\ pc' = "getReactionTemplate"
    /\ UNCHANGED <<recipe, other, otherKind, struct, orig, log, done, struct2, status2, log2>>
    /\ UNCHANGED famvars
    /\ UNCHANGED qvars
    /\ UNCHANGED dbvars
    /\ UNCHANGED loaded
    /\ UNCHANGED <<top, library, kinetics, templates, Tdata, data, A, kmodel>>

\* family.getKinetics(reaction, structures)
GetKinetics(reactants, binding) ==
    /\ pc = "loaded"
    /\ ReturnKinetics(getKinetics(family, top, library, reactants, binding))
    /\ reaction' = reactants
    /\ pc' = "getKinetics"
    /\ UNCHANGED <<recipe, other, otherKind, struct, orig, log, done, struct2, status2, log2>>
    /\ UNCHANGED famvars
    /\ UNCHANGED qvars
    /\ UNCHANGED dbvars
    /\ UNCHANGED loaded
    /\ UNCHANGED <<top, library, template, templates, Tdata, data, A, kmodel>>

\* family.fitGroupValues(templates, Tdata, kdata, kunits) with templates of
\* groups of the family's trees.
FitGroupValues(tmpls, temps) ==
    /\ pc = "loaded"
    /\ \A k \in DOMAIN tmpls : \A g \in DOMAIN tmpls[k] : tmpls[k][g] \in Entries(top)
    /\ ReturnFit(fitGroupValues(top, tmpls, temps, data))
    /\ templates' = tmpls
    /\ Tdata' = temps
    /\ pc' = "fitGroupValues"
    /\ UNCHANGED <<recipe, other, otherKind, struct, orig, log, done, struct2, status2, log2>>
    /\ UNCHANGED famvars
    /\ UNCHANGED qvars
    /\ UNCHANGED dbvars
    /\ UNCHANGED loaded
    /\ UNCHANGED <<top, library, reaction, template, kinetics>>

\* family.fitGroupValuesFromOldLibrary(path, Tlist) for an old library with
\* the given entries, with assertions compiled in or not.
FitGroupValuesFromOldLibrary(oldEntries, temps, asserts) ==
    /\ pc = "loaded"
    /\ \A k \in DOMAIN oldEntries : \A g \in DOMAIN oldEntries[k].template :
          oldEntries[k].template[g] \in Entries(top)
    /\ ReturnFit(fitGroupValuesFromOldLibrary(top, oldEntries, temps, data, asserts))
    /\ templates' = UsableTemplates(oldEntries)
    /\ Tdata' = temps
    /\ pc' = "fitGroupValuesFromOldLibrary"
    /\ UNCHANGED <<recipe, other, otherKind, struct, orig, log, done, struct2, status2, log2>>
    /\ UNCHANGED famvars
    /\ UNCHANGED qvars
    /\ UNCHANGED dbvars
    /\ UNCHANGED loaded
    /\ UNCHANGED <<top, library, reaction, template, kinetics>>

NextKinetics ==
    \/ \E reactants \in Reactions : GetReactionTemplate(reactants)
    \/ \E reactants \in Reactions, binding \in {"unbound", "False", "True"} :
          GetKinetics(reactants, binding)
    \/ \E tmpls \in {<<>>} \cup {<<a>> : a \in FitTemplates}
                      \cup {<<a, b>> : a, b \in FitTemplates},
          temps \in Temperatures :
          FitGroupValues(tmpls, temps)
    \/ \E oldEntries \in {<<>>} \cup {<<a>> : a \in OldEntries}
                           \cup {<<a, b>> : a, b \in OldEntries},
          temps \in Temperatures, asserts \in BOOLEAN :
          FitGroupValuesFromOldLibrary(oldEntries, temps, asserts)

SpecKinetics == InitKinetics /\ [][NextKinetics]_vars

-----------------------------------------------------------------------------
(* Queries over one molecule: two generateReactions calls share the        *)
(* caller's reactant molecules, and each runs candidate by candidate.      *)

\* The families queried: no forbidden structures, patterns without bonds.
QueryFamilies ==
    {f \in Families :
        /\ f.forbidden = {} /\ ~f.bonded
        /\ <<f.label, f.nReactants, f.nProducts>> \in
               {<<"H_Abstraction", 2, 2>>, <<"R_Recombination", 2, 1>>,
                <<"Unimolecular homolysis", 1, 2>>}}

\* The recipes of the families queried.
QueryRecipes ==
    {<<action>> : action \in {<<"FORM_BOND", "*1", "S", "*2">>,
                              <<"BREAK_BOND", "*1", "S", "*2">>,
                              <<"GAIN_RADICAL", "*1", "1">>}}

\* The molecules handed to the queries arrive without labels.
QueryStructs ==
    {clearLabeledAtoms(s) : s \in {t \in FamilyStructs :
        DOMAIN t.bond \in {{}, {{1, 2}}, {{1, 2}, {2, 3}}} /\ \A a \in Atoms : t.rad[a] = 1}}

\* One species handed over for both reactants: the molecule and, as atom 2,
\* the copy __generateProductStructures makes of it for the second place.
SameSpecies == Restrict(Structure(<<"", "", "">>, <<>>, 1), {1, 2})

\* split() lists the components by lowest atom.
QueryOrder == [a \in Atoms |-> a]

\* The number of reactant objects the caller holds: one when the same
\* species is given for both reactants.
ReactantObjects(s, same) == IF same # "no" THEN 1 ELSE Len(MoleculesOf(Components(s)))

\* The candidates of a call: the pass that stores the reactants as B + A is
\* left out when reactants[0] is reactants[1], which is so for the same
\* isomer list given twice; a molecule given twice is wrapped into two lists.
QueryCandidates(fam, s, forward, same) ==
    IF same = "list" THEN CandidatesDirectOnly(fam, s, forward)
    ELSE Candidates(fam, s, forward)

\* KineticsGroups.generateReactions, the reactants given as `same` says.
generateReactionsOf(fam, forwardRecipe, hasReverseRecipe, reverse, s, forward, order, same) ==
    IF ~forward /\ ~HasReverseTemplate(fam) THEN Generated(<<>>, "ok", 0, s)
    ELSE FinishReactions(fam,
             RunCandidates(fam, forwardRecipe, hasReverseRecipe, reverse, s, forward, order,
                           QueryCandidates(fam, s, forward, same),
                           Generated(<<>>, "ok", 0, s)))

\* A call not yet made.
IdleQuery ==
    [pc |-> "idle", forward |-> TRUE, cands |-> <<>>, acc |-> Generated(<<>>, "ok", 0, NoStruct),
     implicitH |-> <<>>, overlapped |-> FALSE]

\* A call is running between its first and its last candidate.
Running(query) == query.pc \in {"tag", "apply"}

InitQueries ==
    /\ recipe \in QueryRecipes
    /\ family \in QueryFamilies
    /\ other = IF family.ownReverse THEN <<>> ELSE getReverse(recipe)
    /\ otherKind = IF family.ownReverse THEN "none" ELSE "rev"
    /\ struct = NoStruct
    /\ sameReactants \in {"no", "list", "molecule"}
    /\ orig \in IF sameReactants = "no" THEN QueryStructs ELSE {SameSpecies}
    /\ implicitHydrogens \in [1..ReactantObjects(orig, sameReactants) -> BOOLEAN]
    /\ queries = [q \in 1..2 |-> IdleQuery]
    /\ status = "none"
    /\ log = <<>>
    /\ done = 0
    /\ struct2 = NoStruct
    /\ status2 = "none"
    /\ log2 = <<>>
    /\ pc = "loaded"
    /\ isForward = TRUE
    /\ productSets = <<>>
    /\ reactionList = <<>>
    /\ generated = 0
    /\ accumulated = <<>>
    /\ KineticsUnused
    /\ loaded = LoadTemplates(family)
    /\ DatabaseUnused

\* makeHydrogensImplicit() on every molecule whose saved flag is set.
RestoreHydrogens(flags, saved) == [k \in DOMAIN flags |-> flags[k] \/ saved[k]]

\* The entry of generateReactions: the flags are saved and the hydrogens
\* made explicit; a reverse call on a family without reverse template
\* returns at once, a call without candidates runs to its end.
Entered(query, fwd, cands, flags, busy) ==
    [pc         |-> IF (~fwd /\ ~HasReverseTemplate(family)) \/ cands = <<>>
                    THEN "done" ELSE "tag",
     forward    |-> fwd,
     cands      |-> IF ~fwd /\ ~HasReverseTemplate(family) THEN <<>> ELSE cands,
     acc        |-> Generated(<<>>, "ok", 0, orig),
     implicitH  |-> flags,
     overlapped |-> busy]

\* family.generateReactions(reactants, forward) is called.
StartQuery(q, fwd) ==
    /\ pc = "loaded"
    /\ queries[q].pc = "idle"
    /\ queries' = [p \in DOMAIN queries |->
                      IF p = q
                      THEN Entered(queries[q], fwd,
                                   QueryCandidates(family, orig, fwd, sameReactants),
                                   implicitHydrogens,
                                   \E r \in DOMAIN queries : Running(queries[r]))
                      ELSE IF Running(queries[p])
                      THEN [queries[p] EXCEPT !.overlapped = TRUE]
                      ELSE queries[p]]
    /\ implicitHydrogens' =
          IF ~fwd /\ ~HasReverseTemplate(family)
          THEN [k \in DOMAIN implicitHydrogens |-> FALSE]
          ELSE IF QueryCandidates(family, orig, fwd, sameReactants) = <<>>
          THEN RestoreHydrogens([k \in DOMAIN implicitHydrogens |-> FALSE], implicitHydrogens)
          ELSE [k \in DOMAIN implicitHydrogens |-> FALSE]
    /\ UNCHANGED <<recipe, other, otherKind, struct, orig, status, log, done,
                   struct2, status2, log2, pc, sameReactants>>
    /\ UNCHANGED famvars
    /\ UNCHANGED kinvars
    /\ UNCHANGED loaded
    /\ UNCHANGED dbvars

\* The head of __generateProductStructures for the next candidate: the
\* labels of the reactant molecules are cleared and those of the mapping
\* are put on them.
TagCandidate(q) ==
    /\ queries[q].pc = "tag"
    /\ orig' = TagAtoms(clearLabeledAtoms(orig), Head(queries[q].cands))
    /\ queries' = [queries EXCEPT ![q].pc = "apply"]
    /\ UNCHANGED <<recipe, other, otherKind, struct, status, log, done,
                   struct2, status2, log2, pc, sameReactants, implicitHydrogens>>
    /\ UNCHANGED famvars
    /\ UNCHANGED kinvars
    /\ UNCHANGED loaded
    /\ UNCHANGED dbvars

\* A variant that returns after the last candidate without merging the
\* duplicate reactions.
AfterCandidateUnmerged(query, acc, rest) ==
    IF acc.status # "ok" \/ rest = <<>>
    THEN [query EXCEPT !.pc = "done", !.acc = acc, !.cands = <<>>]
    ELSE [query EXCEPT !.pc = "tag", !.acc = acc, !.cands = rest]

\* The call after one more candidate, acc being the list with it: an
\* exception ends the call, the last candidate lets it run to its end.
AfterCandidate(query, acc, rest) ==
    IF acc.status # "ok" THEN [query EXCEPT !.pc = "done", !.acc = acc, !.cands = <<>>]
    ELSE IF rest = <<>>
    THEN [query EXCEPT !.pc = "done", !.acc = FinishReactions(family, acc), !.cands = <<>>]
    ELSE [query EXCEPT !.pc = "tag", !.acc = acc, !.cands = rest]

\* The hydrogens after one more candidate: restored when the call ran to
\* its end.
HydrogensAfter(query, flags) ==
    IF query.pc = "done" /\ query.acc.status = "ok"
    THEN RestoreHydrogens(flags, query.implicitH) ELSE flags

\* The rest of __generateProductStructures for the candidate, and
\* __createReaction: the recipe is applied to a copy of the molecules as
\* they are labeled now.
ApplyCandidate(q) ==
    /\ queries[q].pc = "apply"
    /\ queries' = [queries EXCEPT ![q] =
          AfterCandidate(queries[q],
              Candidate(queries[q].acc, orig, MoleculesOf(Components(orig)),
                  ProductStructures(family, orig,
                      applyRecipe(family, recipe, otherKind = "rev", other, orig,
                                  queries[q].forward, QueryOrder))),
              Tail(queries[q].cands))]
    /\ implicitHydrogens' = HydrogensAfter(queries'[q], implicitHydrogens)
    /\ UNCHANGED <<recipe, other, otherKind, struct, orig, status, log, done,
                   struct2, status2, log2, pc, sameReactants>>
    /\ UNCHANGED famvars
    /\ UNCHANGED kinvars
    /\ UNCHANGED loaded
    /\ UNCHANGED dbvars

NextQueries ==
    \/ \E q \in 1..2, fwd \in BOOLEAN : StartQuery(q, fwd)
    \/ \E q \in 1..2 : TagCandidate(q)
    \/ \E q \in 1..2 : ApplyCandidate(q)

SpecQueries == InitQueries /\ [][NextQueries]_vars

-----------------------------------------------------------------------------
(* KineticsDatabase: reactions and rate data looked up in a library.        *)

\* Most entries a library of the database has.
MaxEntries == 2

\* The species of the library and of the requests: two molecules with one
\* single bond at different places (isomorphic, not the same object), one
\* with a double bond and one without bonds.
SpeciesA == Structure(<<"", "", "">>, [e \in {{1, 2}} |-> "S"], 0)
SpeciesA2 == Structure(<<"", "", "">>, [e \in {{2, 3}} |-> "S"], 0)
SpeciesB == Structure(<<"", "", "">>, [e \in {{1, 2}} |-> "D"], 0)
SpeciesC == Structure(<<"", "", "">>, <<>>, 0)

\* The product lists of the library reactions and of the requests.
DatabaseProducts ==
    {<<SpeciesB>>, <<SpeciesC>>, <<SpeciesB, SpeciesC>>, <<SpeciesC, SpeciesB>>,
     <<SpeciesB, SpeciesA>>}

\* The reactions of the library entries.
DatabaseItems ==
    {[reactants |-> r, products |-> p, degeneracy |-> 1] :
        r \in {<<SpeciesA>>, <<SpeciesA, SpeciesC>>}, p \in DatabaseProducts}

\* The libraries loaded: the entries in the order the dictionary lists
\* them, each with its reaction (item) and its rate data.
DatabaseLibraries ==
    UNION {{[k \in 1..n |-> [item |-> s[k], data |-> k]] : s \in [1..n -> DatabaseItems]} :
              n \in 0..MaxEntries}

\* The reactant lists of the requests.
RequestReactants == {<<SpeciesA2>>, <<SpeciesC, SpeciesA2>>}

\* One or two molecules given are those of a list of a reaction, in either
\* order.
MatchesEitherOrder(given, own) ==
    \/ /\ Len(given) = 1 /\ Len(own) = 1
       /\ IsIsomorphic(given[1], own[1])
    \/ /\ Len(given) = 2 /\ Len(own) = 2
       /\ \/ IsIsomorphic(given[1], own[1]) /\ IsIsomorphic(given[2], own[2])
          \/ IsIsomorphic(given[1], own[2]) /\ IsIsomorphic(given[2], own[1])

\* KineticsDatabase.__reactionMatchesReactants: the forward direction, then
\* the reverse one.
reactionMatchesReactants(reactants, rxn) ==
    MatchesEitherOrder(reactants, rxn.reactants) \/ MatchesEitherOrder(reactants, rxn.products)

\* KineticsDatabase.generateReactionsFromLibrary
RECURSIVE generateReactionsFromLibrary(_, _)
generateReactionsFromLibrary(reactants, lib) ==
    IF lib = <<>> THEN <<>>
    ELSE (IF reactionMatchesReactants(reactants, Head(lib).item) THEN <<Head(lib)>> ELSE <<>>)
         \o generateReactionsFromLibrary(reactants, Tail(lib))

\* The inner loop of the product filter: the first of products0 that is
\* isomorphic to the product is removed.
RECURSIVE RemoveFirstIsomorphic(_, _)
RemoveFirstIsomorphic(products0, product) ==
    IF products0 = <<>> THEN <<>>
    ELSE IF IsIsomorphic(product, Head(products0)) THEN Tail(products0)
    ELSE <<Head(products0)>> \o RemoveFirstIsomorphic(Tail(products0), product)

\* The products of a reaction that are left over after the loop over the
\* specified products.
RECURSIVE UnmatchedProducts(_, _)
UnmatchedProducts(products0, products) ==
    IF products = <<>> THEN products0
    ELSE UnmatchedProducts(RemoveFirstIsomorphic(products0, Head(products)), Tail(products))

\* The product filter of generateReactions: a reaction with products left
\* over is removed from the list.
RECURSIVE KeepInvolving(_, _)
KeepInvolving(list, products) ==
    IF list = <<>> THEN <<>>
    ELSE (IF UnmatchedProducts(Head(list).item.products, products) # <<>>
          THEN <<>> ELSE <<Head(list)>>)
         \o KeepInvolving(Tail(list), products)

\* KineticsDatabase.generateReactions for a database with one library, an
\* empty depository and no groups; `given` is "products is not None".
databaseGenerateReactions(lib, reactants, products, given) ==
    IF given THEN KeepInvolving(generateReactionsFromLibrary(reactants, lib), products)
    ELSE generateReactionsFromLibrary(reactants, lib)

\* The reactantsMatch of __equivalentReactions, for one or two reactants.
reactantsMatch(rxn, reactants) ==
    IF Len(reactants) = 1
    THEN IsIsomorphic(rxn.reactants[1], reactants[1])
    ELSE IF Len(reactants) = 2
    THEN \/ IsIsomorphic(rxn.reactants[1], reactants[1]) /\ IsIsomorphic(rxn.reactants[2], reactants[2])
         \/ IsIsomorphic(rxn.reactants[1], reactants[2]) /\ IsIsomorphic(rxn.reactants[2], reactants[1])
    ELSE FALSE

\* The productsMatch of __equivalentReactions, chosen by the number of
\* reactants: "IndexError" when it reads a second product that is not there.
productsMatch(rxn, reactants, products) ==
    IF Len(reactants) = 1
    THEN (IF IsIsomorphic(rxn.products[1], products[1]) THEN "True" ELSE "False")
    ELSE IF Len(reactants) = 2
    THEN (IF Len(products) < 2 THEN "IndexError"
          ELSE IF \/ IsIsomorphic(rxn.products[1], products[1]) /\ IsIsomorphic(rxn.products[2], products[2])
                  \/ IsIsomorphic(rxn.products[1], products[2]) /\ IsIsomorphic(rxn.products[2], products[1])
          THEN "True" ELSE "False")
    ELSE "False"

\* KineticsDatabase.__equivalentReactions
equivalentReactions(rxn, reactants, products) ==
    IF Len(rxn.reactants) # Len(reactants) \/ Len(rxn.products) # Len(products) THEN "False"
    ELSE IF ~reactantsMatch(rxn, reactants) THEN "False"
    ELSE productsMatch(rxn, reactants, products)

\* The loop of getKineticsDataFromLibrary from the i-th entry on.
RECURSIVE LookupFrom(_, _, _, _)
LookupFrom(lib, i, reactants, products) ==
    IF i > Len(lib) THEN [data |-> None, status |-> "ok"]
    ELSE IF equivalentReactions(lib[i].item, reactants, products) = "IndexError"
    THEN [data |-> None, status |-> "IndexError"]
    ELSE IF equivalentReactions(lib[i].item, reactants, products) = "True"
    THEN [data |-> lib[i].data, status |-> "ok"]
    ELSE LookupFrom(lib, i + 1, reactants, products)

\* KineticsDatabase.getKineticsDataFromLibrary
getKineticsDataFromLibrary(lib, reactants, products) == LookupFrom(lib, 1, reactants, products)

InitDatabase ==
    /\ recipe = <<>>
    /\ other = <<>>
    /\ otherKind = "none"
    /\ struct = NoStruct
    /\ orig = NoStruct
    /\ status = "none"
    /\ log = <<>>
    /\ done = 0
    /\ struct2 = NoStruct
    /\ status2 = "none"
    /\ log2 = <<>>
    /\ pc = "database"
    /\ family = NoFamily
    /\ isForward = TRUE
    /\ productSets = <<>>
    /\ reactionList = <<>>
    /\ generated = 0
    /\ accumulated = <<>>
    /\ KineticsUnused
    /\ QueriesUnused
    /\ loaded = NotLoaded
    /\ entries \in DatabaseLibraries
    /\ request = Request(<<>>, <<>>, FALSE)
    /\ found = Found(<<>>, None)

\* database.generateReactions(reactants, products)
DatabaseGenerateReactions(reactants, products, given) ==
    /\ pc = "database"
    /\ request' = Request(reactants, products, given)
    /\ found' = Found(databaseGenerateReactions(entries, reactants, products, given), None)
    /\ status' = "ok"
    /\ pc' = "database.generateReactions"
    /\ UNCHANGED <<recipe, other, otherKind, struct, orig, log, done, struct2, status2, log2>>
    /\ UNCHANGED <<entries, loaded>>
    /\ UNCHANGED famvars
    /\ UNCHANGED kinvars
    /\ UNCHANGED qvars

\* database.getKineticsDataFromLibrary(reactants, products, family, library)
GetKineticsDataFromLibrary(reactants, products) ==
    /\ pc = "database"
    /\ request' = Request(reactants, products, TRUE)
    /\ found' = Found(<<>>, getKineticsDataFromLibrary(entries, reactants, products).data)
    /\ status' = getKineticsDataFromLibrary(entries, reactants, products).status
    /\ pc' = "getKineticsDataFromLibrary"
    /\ UNCHANGED <<recipe, other, otherKind, struct, orig, log, done, struct2, status2, log2>>
    /\ UNCHANGED <<entries, loaded>>
    /\ UNCHANGED famvars
    /\ UNCHANGED kinvars
    /\ UNCHANGED qvars

NextDatabase ==
    \/ \E reactants \in RequestReactants, products \in DatabaseProducts, given \in BOOLEAN :
          DatabaseGenerateReactions(reactants, IF given THEN products ELSE <<>>, given)
    \/ \E reactants \in RequestReactants, products \in DatabaseProducts :
          GetKineticsDataFromLibrary(reactants, products)

SpecDatabase == InitDatabase /\ [][NextDatabase]_vars

-----------------------------------------------------------------------------
(* Properties of the recipe engine.                                        *)

\* The session has applied the recipe to struct.
Applied == pc # "build"

\* The direction of the last application on struct.
LastForward == pc \in {"fwd", "fwd_fwd", "fwd_rev"}

\* The structure the last application on struct started from.
StartStruct == IF pc = "fwdrev" THEN applyForward(recipe, orig).struct ELSE orig

\* Number of occurrences of a call in a log.
Count(lg, ev) == Cardinality({i \in DOMAIN lg : lg[i] = ev})

IsBondAction(action) == action[1] \in {"CHANGE_BOND", "FORM_BOND", "BREAK_BOND"}

\* C1: applyReverse after a successful applyForward succeeds and restores a
\* structure isomorphic to the one applyForward started from.
C1_RoundTripRestores ==
    pc = "fwdrev" => (status = "ok" /\ IsIsomorphic(struct, orig))

\* b is the inverse of a on the same labels.
InverseOf(a, b) ==
    /\ Len(b) = Len(a)
    /\ b[2] = a[2]
    /\ CASE a[1] = "CHANGE_BOND" ->
                b[1] = "CHANGE_BOND" /\ b[4] = a[4] /\ ParseInt(b[3]) = 0 - ParseInt(a[3])
         [] a[1] = "FORM_BOND" -> b[1] = "BREAK_BOND" /\ b[4] = a[4] /\ b[3] = a[3]
         [] a[1] = "BREAK_BOND" -> b[1] = "FORM_BOND" /\ b[4] = a[4] /\ b[3] = a[3]
         [] a[1] = "GAIN_RADICAL" -> b[1] = "LOSE_RADICAL" /\ b[3] = a[3]
         [] a[1] = "LOSE_RADICAL" -> b[1] = "GAIN_RADICAL" /\ b[3] = a[3]
         [] OTHER -> FALSE

\* C2: getReverse(R) has as many actions as R, in the same order, the i-th the
\* inverse of R's i-th on the same labels, and the call leaves R as it was.
C2_GetReverseInvertsInOrder ==
    /\ [](otherKind = "rev" =>
            /\ Len(other) = Len(recipe)
            /\ \A i \in 1..Len(recipe) : InverseOf(recipe[i], other[i]))
    /\ [][otherKind' # otherKind => recipe' = recipe]_vars

C2_Witness ==
    /\ otherKind = "rev"
    /\ Len(recipe) = 2
    /\ recipe[1][1] = "FORM_BOND"
    /\ recipe[2] = <<"CHANGE_BOND", "*1", "+1", "*2">>

\* C3: getReverse(getReverse(R)) applied to a structure, forward or reverse,
\* ends as R does: the same structure and the same outcome.
C3_DoubleReverseBehavesAsOriginal ==
    (otherKind = "rev2" /\ pc \in {"fwd_fwd", "rev_rev"}) =>
        (struct2 = struct /\ status2 = status /\ log2 = log)

C3_Witness ==
    /\ otherKind = "rev2"
    /\ pc = "fwd_fwd"
    /\ status = "ok"
    /\ other # recipe
    /\ Len(recipe) = 2
    /\ recipe[1][1] = "FORM_BOND"
    /\ struct # orig

\* The action names a label no atom carries, or its two labels name one atom.
BadCenters(s, action) ==
    IF IsBondAction(action)
    THEN \/ getLabeledAtom(s, action[2]) = None
         \/ getLabeledAtom(s, action[4]) = None
         \/ getLabeledAtom(s, action[2]) = getLabeledAtom(s, action[4])
    ELSE getLabeledAtom(s, action[2]) = None

\* The action removes a bond in the given direction.
BreaksBond(action, doForward) ==
    \/ action[1] = "BREAK_BOND" /\ doForward
    \/ action[1] = "FORM_BOND" /\ ~doForward

\* C4: an action that is reached fails with InvalidActionError when one of its
\* labels is on no atom, when its two labels name the same atom, and when it
\* breaks a bond between two atoms that have none.
C4_InvalidActionRaised ==
    Applied =>
        \A k \in 1..Len(recipe) :
            LET before == Apply(SubSeq(recipe, 1, k - 1), StartStruct, LastForward).struct
                noBond == /\ BreaksBond(recipe[k], LastForward)
                          /\ ~BadCenters(before, recipe[k])
                          /\ ~hasBond(before, getLabeledAtom(before, recipe[k][2]),
                                              getLabeledAtom(before, recipe[k][4]))
            IN (k <= done + 1 /\ (BadCenters(before, recipe[k]) \/ noBond))
                   => (status = "InvalidActionError" /\ done = k - 1)

\* A second action breaks a bond that the first one left absent.
C4_Witness ==
    /\ pc = "rev"
    /\ Len(recipe) = 2
    /\ done = 1
    /\ recipe[2][1] = "FORM_BOND"
    /\ ~BadCenters(struct, recipe[2])
    /\ status = "InvalidActionError"

\* C6: an application, complete or stopped by a failure, leaves the atoms of
\* the structure and their labels as they were.
C6_AtomsPreserved ==
    /\ Applied => (struct.atoms = orig.atoms /\ struct.label = orig.label
                   /\ DOMAIN struct.rad = orig.atoms)
    /\ status2 # "none" => (struct2.atoms = orig.atoms /\ struct2.label = orig.label
                            /\ DOMAIN struct2.rad = orig.atoms)

\* An application that removed a bond and then failed.
C6_Witness ==
    /\ pc = "fwd"
    /\ status # "ok"
    /\ done = 1
    /\ DOMAIN struct.bond # DOMAIN orig.bond
    /\ Cardinality(DOMAIN struct.bond) < Cardinality(DOMAIN orig.bond)

\* C7 as stated: one recomputation per application, after the last action, at
\* most one invalidation, and neither of them between two edits.
C7_OneInvalidationPerRecipe ==
    Applied =>
        /\ Count(log, "updateConnectivityValues") = 1
        /\ log[Len(log)] = "updateConnectivityValues"
        /\ Count(log, "resetConnectivityValues") <= 1
        /\ \A i, j, k \in DOMAIN log :
              (i < j /\ j < k /\ log[i] = "edit" /\ log[k] = "edit") => log[j] = "edit"

\* C7 amended: a successful application recomputes once, as its last call; a
\* failed one never recomputes; the invalidation runs once per bond action
\* that is reached, before that action's edit.
C7_OneRecomputationPerRecipe ==
    Applied =>
        LET reached == IF status = "ok" THEN Len(recipe) ELSE done + 1
        IN /\ status = "ok" => /\ Count(log, "updateConnectivityValues") = 1
                               /\ log[Len(log)] = "updateConnectivityValues"
           /\ status # "ok" => Count(log, "updateConnectivityValues") = 0
           /\ Count(log, "resetConnectivityValues")
                  = Cardinality({k \in 1..reached : IsBondAction(recipe[k])})

C7_Witness ==
    /\ pc = "fwd"
    /\ status = "ok"
    /\ Count(log, "resetConnectivityValues") = 2
    /\ Count(log, "edit") = 2

\* The recipe is the single bond action `name`, and was applied to the
\* caller's structure in the direction given, with success.
BondMade(name, doForward) ==
    /\ pc = (IF doForward THEN "fwd" ELSE "rev")
    /\ status = "ok"
    /\ Len(recipe) = 1
    /\ recipe[1][1] = name

\* The order of the bond between the two atoms the action names.
MadeOrder ==
    struct.bond[Edge(getLabeledAtom(struct, recipe[1][2]),
                     getLabeledAtom(struct, recipe[1][4]))]

\* C25: the bond a FORM_BOND action creates, and the bond a BREAK_BOND
\* action recreates in the reverse direction, has the order that is the
\* action's order operand.
C25_BondOfOrderOperand ==
    (BondMade("FORM_BOND", TRUE) \/ BondMade("BREAK_BOND", FALSE))
        => MadeOrder = recipe[1][3]

\* Every bond made that way is a single bond.
C25_BondAlwaysSingle ==
    (BondMade("FORM_BOND", TRUE) \/ BondMade("BREAK_BOND", FALSE))
        => MadeOrder = "S"

\* recipe.applyReverse was called on the caller's structure and
\* recipe.getReverse().applyForward on a second copy of it.
ReverseBothWays ==
    /\ pc = "rev_fwd"
    /\ otherKind = "rev"

\* C29: for every recipe of the five action kinds and every labeled
\* structure, applyReverse and getReverse().applyForward make the same calls
\* and end in the same structure, or fail at the same action with the same
\* error.
C29_ReverseIsForwardOfReverse ==
    ReverseBothWays =>
        /\ struct2 = struct
        /\ status2 = status
        /\ log2 = log
        /\ applyForward(other, orig).done = done

\* A recipe of two actions, a CHANGE_BOND among them, was applied both ways
\* and changed the structure.
C29_Witness ==
    /\ ReverseBothWays
    /\ Len(recipe) = 2
    /\ \E i \in DOMAIN recipe : recipe[i][1] = "CHANGE_BOND"
    /\ status = "ok"
    /\ struct # orig

-----------------------------------------------------------------------------
(* Properties of the family operations.                                    *)

\* The recipe the last call ran: the recipe itself, or for the reverse
\* direction of a family the reverse recipe.
UsedRecipe == IF pc = "apply" \/ isForward THEN recipe ELSE other

\* The direction it was run in: a family applies either recipe forward.
UsedForward == pc = "apply" => isForward

\* The structure that recipe was run on: the tagged reactants, with the two
\* '*' of a forward recombination numbered.
RecipeInput ==
    IF pc # "apply" /\ Lower(family.label) = "r_recombination" /\ isForward
    THEN RelabelIdenticalCenters(orig).struct
    ELSE orig

\* The last call got as far as running its recipe.
RecipeRan ==
    \/ pc = "apply"
    \/ /\ \/ pc \in {"applyRecipe", "generateProductStructures"}
          \/ pc = "generateReactions" /\ generated >= 1
       /\ isForward \/ otherKind = "rev"
       /\ (Lower(family.label) = "r_recombination" /\ isForward)
              => RelabelIdenticalCenters(orig).status = "ok"

\* The action, applied to s, is one __apply refuses: a label on no atom, two
\* labels on one atom, or a bond to break that is not there.
RaisesInvalidAction(s, action, doForward) ==
    \/ BadCenters(s, action)
    \/ /\ BreaksBond(action, doForward)
       /\ ~hasBond(s, getLabeledAtom(s, action[2]), getLabeledAtom(s, action[4]))

\* On s, the first k-1 actions succeed and the k-th is refused.
FailsAt(actions, s, k, doForward) ==
    /\ Apply(SubSeq(actions, 1, k - 1), s, doForward).status = "ok"
    /\ RaisesInvalidAction(Apply(SubSeq(actions, 1, k - 1), s, doForward).struct,
                           actions[k], doForward)

\* C5: when an action of the recipe raises InvalidActionError, the caller of
\* applyForward or applyReverse, of applyRecipe, of
\* __generateProductStructures and of generateReactions gets
\* InvalidActionError and no products; the structure is as the actions before
\* the failing one left it; and a generateReactions that returns normally
\* has met no candidate whose recipe raises it.
C5_InvalidActionReachesCaller ==
    /\ RecipeRan =>
          \A k \in 1..Len(UsedRecipe) :
              FailsAt(UsedRecipe, RecipeInput, k, UsedForward) =>
                  /\ status = "InvalidActionError"
                  /\ pc = "apply" => done = k - 1
                  /\ pc = "generateReactions" => reactionList = <<>>
                  /\ pc \in {"applyRecipe", "generateProductStructures"} => productSets = <<>>
                  /\ pc # "generateReactions" =>
                        struct = Apply(SubSeq(UsedRecipe, 1, k - 1), RecipeInput, UsedForward).struct
    /\ (pc = "generateReactions" /\ status = "ok" /\ generated >= 1) =>
          LET cands == Candidates(family, orig, isForward)
          IN \A c \in DOMAIN cands : \A k \in 1..Len(UsedRecipe) :
                LET tagged == TagAtoms(orig, cands[c])
                    input == IF Lower(family.label) = "r_recombination" /\ isForward
                             THEN RelabelIdenticalCenters(tagged).struct ELSE tagged
                IN ~FailsAt(UsedRecipe, input, k, TRUE)

\* generateReactions stopped at its second candidate or later, on a recipe
\* whose second action was refused after the first had succeeded.
C5_Witness ==
    /\ pc = "generateReactions"
    /\ status = "InvalidActionError"
    /\ generated >= 2
    /\ Len(UsedRecipe) = 2
    /\ FailsAt(UsedRecipe, RecipeInput, 2, TRUE)

\* C8: applyRecipe returns as many product structures as the template of the
\* direction declares, every component of the product structure once, or it
\* fails with an error; it returns None only in the reverse direction of
\* r_recombination, for a single reactant that stayed in one piece and has
\* both '*1' and '*2' in rings.
C8_ProductCountOrError ==
    pc = "applyRecipe" =>
        /\ status = "ok" =>
              /\ Len(productSets) = TemplateProducts(family, isForward)
              /\ {productSets[k] : k \in DOMAIN productSets} = Components(struct)
              /\ Cardinality(Components(struct)) = Len(productSets)
        /\ status # "ok" => productSets = <<>>
        /\ status = "None" =>
              /\ Lower(family.label) = "r_recombination"
              /\ ~isForward
              /\ Cardinality(Components(orig)) = 1
              /\ Cardinality(Components(struct)) = 1
              /\ TemplateProducts(family, isForward) # 1
              /\ getLabeledAtom(orig, "*1") # None
              /\ getLabeledAtom(orig, "*2") # None
              /\ isVertexInCycle(orig, getLabeledAtom(orig, "*1"))
              /\ isVertexInCycle(orig, getLabeledAtom(orig, "*2"))

\* A ring was opened by the reverse of a recombination: None is returned.
C8_Witness ==
    /\ pc = "applyRecipe"
    /\ status = "None"
    /\ struct # orig

\* C9: when applyRecipe or __generateProductStructures returns two product
\* structures and one of them has an atom labeled '*1', the first one has.
C9_StarOneFirst ==
    (/\ pc \in {"applyRecipe", "generateProductStructures"}
     /\ status = "ok"
     /\ Len(productSets) = 2
     /\ \E k \in DOMAIN productSets : containsLabeledAtom(Restrict(struct, productSets[k]), "*1"))
        => containsLabeledAtom(Restrict(struct, productSets[1]), "*1")

\* Two products of which only the first has '*1'; split() listed it second
\* under one of the two priorities.
C9_Witness ==
    /\ pc = "applyRecipe"
    /\ status = "ok"
    /\ Len(productSets) = 2
    /\ containsLabeledAtom(Restrict(struct, productSets[1]), "*1")
    /\ ~containsLabeledAtom(Restrict(struct, productSets[2]), "*1")
    /\ \E order \in SplitPriorities : SplitBy(struct, order) # productSets

\* C10: generateReactions returns an empty list, and calls
\* __generateProductStructures for no candidate, when the reverse is asked of
\* a family that is its own reverse, when the reactants are not one or two,
\* and when their number is not the number of reactants of the template.
C10_EmptyWithoutCandidates ==
    pc = "generateReactions" =>
        LET n == Cardinality(Components(orig))
        IN (\/ (~isForward /\ family.ownReverse)
            \/ n \notin {1, 2}
            \/ n # TemplateReactants(family, isForward))
               => (reactionList = <<>> /\ generated = 0 /\ status = "ok")

\* Two reactants were handed to a family whose template has one.
C10_Witness ==
    /\ pc = "generateReactions"
    /\ isForward
    /\ Cardinality(Components(orig)) = 2
    /\ TemplateReactants(family, isForward) = 1
    /\ recipe # <<>>
    /\ reactionList = <<>>

\* The family has no reverse template and no reverse recipe.
WithoutReverse ==
    /\ loaded.reverseTemplate.isNone
    /\ otherKind = "none"

\* The family has the reverse template and the reverse recipe that mirror
\* the forward ones.
WithMirroredReverse ==
    /\ ~loaded.reverseTemplate.isNone
    /\ loaded.reverseTemplate.reactants = loaded.forwardTemplate.products
    /\ loaded.reverseTemplate.products = loaded.forwardTemplate.reactants
    /\ otherKind = "rev"
    /\ other = getReverse(recipe)

\* C26: after load or loadOld a family is either its own reverse, without
\* reverse template and reverse recipe, or it has a reverse template that
\* is the forward template with reactants and products exchanged and a
\* reverse recipe equal to getReverse of the forward recipe.
C26_ReverseTemplateAndRecipe ==
    pc \in {"loaded", "loadedOld"} =>
        \/ family.ownReverse /\ WithoutReverse
        \/ ~family.ownReverse /\ WithMirroredReverse

\* The same after load alone.
C26_ReverseAfterLoad ==
    pc = "loaded" =>
        \/ family.ownReverse /\ WithoutReverse
        \/ ~family.ownReverse /\ WithMirroredReverse

-----------------------------------------------------------------------------
(* Properties of the list generateReactions returns.                       *)

\* generateReactions returned a list.
Returned == pc = "generateReactions" /\ status = "ok"

\* The candidates the call went through: none when the reverse is asked of a
\* family that is its own reverse.
CallCandidates ==
    IF ~isForward /\ family.ownReverse THEN <<>> ELSE Candidates(family, orig, isForward)

\* What __generateProductStructures did for the c-th of them (its outcome
\* does not depend on the order of the split, taken by lowest atom here).
CandidateOutcome(c) ==
    generateProductStructures(family, recipe, otherKind = "rev", other, orig,
                              CallCandidates[c], isForward, [a \in Atoms |-> a])

\* The tagged reactant structures of the c-th candidate.
CandidateReactants(c) ==
    [k \in DOMAIN MoleculesOf(Components(orig)) |->
        Restrict(TagAtoms(orig, CallCandidates[c]), MoleculesOf(Components(orig))[k])]

\* Its product structures.
CandidateProducts(c) ==
    [k \in DOMAIN CandidateOutcome(c).products |->
        Restrict(CandidateOutcome(c).struct, CandidateOutcome(c).products[k])]

\* Products that are the reactants again, in one pairing or the other.
IsIdentity(reactants, products) ==
    \/ /\ Len(reactants) = 1 /\ Len(products) = 1
       /\ IsIsomorphic(reactants[1], products[1])
    \/ /\ Len(reactants) = 2 /\ Len(products) = 2
       /\ \/ IsIsomorphic(reactants[1], products[1]) /\ IsIsomorphic(reactants[2], products[2])
          \/ IsIsomorphic(reactants[1], products[2]) /\ IsIsomorphic(reactants[2], products[1])

\* The candidates that gave product structures, and those of them that
\* transform nothing.
ProductiveCandidates == {c \in DOMAIN CallCandidates : CandidateOutcome(c).status = "ok"}
IdentityCandidates ==
    {c \in ProductiveCandidates : IsIdentity(CandidateReactants(c), CandidateProducts(c))}

\* C11: no reaction in the list generateReactions returns has products that
\* are its reactants again: not one for one, and not two for two in either
\* pairing.
C11_NoIdentityReaction ==
    pc = "generateReactions" =>
        \A k \in DOMAIN reactionList :
            ~IsIdentity(reactionList[k].reactants, reactionList[k].products)

\* A reactant gave a reaction for one candidate and itself again for another,
\* which was discarded.
C11_Witness ==
    /\ Returned
    /\ reactionList # <<>>
    /\ IdentityCandidates # {}

\* Two structures with a resonance isomer in common.
ResonanceEquivalent(p, q) ==
    \E x \in ResonanceClosure({p}), y \in ResonanceClosure({q}) : IsIsomorphic(x, y)

\* Two product lists that are the same unordered set, resonance isomers of
\* both sides taken into account.
SameProductSets(ps, qs) ==
    \/ /\ Len(ps) = 1 /\ Len(qs) = 1
       /\ ResonanceEquivalent(ps[1], qs[1])
    \/ /\ Len(ps) = 2 /\ Len(qs) = 2
       /\ \/ ResonanceEquivalent(ps[1], qs[1]) /\ ResonanceEquivalent(ps[2], qs[2])
          \/ ResonanceEquivalent(ps[1], qs[2]) /\ ResonanceEquivalent(ps[2], qs[1])

\* The candidates that became reactions before the duplicates were merged.
CreatedCandidates == ProductiveCandidates \ IdentityCandidates

\* C12: in the list generateReactions returns no two reactions have the same
\* product set up to resonance isomers, and the count each reaction has
\* accumulated is the number of candidates with its product set: every
\* duplicate was removed and added 1.
C12_DuplicatesMerged ==
    Returned =>
        /\ Len(accumulated) = Len(reactionList)
        /\ \A i, j \in DOMAIN reactionList :
              i < j => ~SameProductSets(reactionList[i].products, reactionList[j].products)
        /\ \A k \in DOMAIN reactionList :
              accumulated[k] =
                  Cardinality({c \in CreatedCandidates :
                      SameProductSets(CandidateProducts(c), reactionList[k].products)})

\* Two reactions are returned, one of them standing for two candidates whose
\* products are the same only through a resonance isomer.
C12_Witness ==
    /\ Returned
    /\ Len(reactionList) >= 2
    /\ \E c, d \in CreatedCandidates :
          /\ c # d
          /\ SameProductSets(CandidateProducts(c), CandidateProducts(d))
          /\ ~IsIdentity(CandidateProducts(c), CandidateProducts(d))

\* The sum of a list of numbers.
RECURSIVE SumSeq(_)
SumSeq(q) == IF q = <<>> THEN 0 ELSE Head(q) + SumSeq(Tail(q))

\* The candidates for which __generateProductStructures returned None: a
\* forbidden structure on either side, or a ring opened by a homolysis.
RejectedCandidates == {c \in DOMAIN CallCandidates : CandidateOutcome(c).status = "None"}

\* C13 as stated: the degeneracies of the returned reactions add up to the
\* number of candidates considered less the identity candidates discarded.
C13_DegeneracyConserved ==
    Returned =>
        SumSeq(Degeneracies(reactionList)) = generated - Cardinality(IdentityCandidates)

\* C13, amended: every mapping is considered once, and the degeneracies the
\* duplicate merging accumulated add up to the number of candidates
\* considered less the identity candidates and less the candidates that
\* gave no product structures.
C13_DegeneracyConservedButRejected ==
    Returned =>
        /\ generated = Len(CallCandidates)
        /\ SumSeq(accumulated) =
              generated - Cardinality(IdentityCandidates) - Cardinality(RejectedCandidates)

\* Of several candidates some were rejected for a forbidden structure, and
\* duplicates among the others were merged.
C13_Witness ==
    /\ Returned
    /\ RejectedCandidates # {}
    /\ \E k \in DOMAIN accumulated : accumulated[k] >= 2


\* C14: every reaction generateReactions returns, in every family and
\* direction, carries a degeneracy of at least 1.
C14_DegeneracyAtLeastOne ==
    Returned => \A k \in DOMAIN reactionList : reactionList[k].degeneracy >= 1


\* C15: the reactions returned for the reverse direction of the radical
\* recombination family carry half the degeneracy accumulated by the
\* duplicate merging; those of every other family and direction carry the
\* accumulated degeneracy itself.
C15_HomolysisHalved ==
    Returned =>
        /\ Len(reactionList) = Len(accumulated)
        /\ \A k \in DOMAIN reactionList :
              IF Lower(family.label) = "r_recombination" /\ ~isForward
              THEN 2 * reactionList[k].degeneracy = accumulated[k]
              ELSE reactionList[k].degeneracy = accumulated[k]


\* generateReactions is called on two molecules for a template of two
\* reactant patterns that differ.
TwoDifferentTemplateReactants ==
    /\ pc = "generateReactions"
    /\ Len(MoleculesOf(Components(orig))) = 2
    /\ TemplateReactants(family, isForward) = 2
    /\ ~(~isForward /\ family.ownReverse)
    /\ TemplateCenters(family, isForward, 1) # TemplateCenters(family, isForward, 2)

\* Two reactions with the same products up to isomorphism, in either order,
\* and the same degeneracy.
SameReaction(r, q) ==
    /\ r.degeneracy = q.degeneracy
    /\ IsIdentity(r.products, q.products)

\* Two lists holding the same reactions, each as often in one as in the other.
SameReactionSet(l1, l2) ==
    \A r \in {l1[i] : i \in DOMAIN l1} \cup {l2[j] : j \in DOMAIN l2} :
        Cardinality({i \in DOMAIN l1 : SameReaction(l1[i], r)})
            = Cardinality({j \in DOMAIN l2 : SameReaction(l2[j], r)})

\* What the call gives for the same two reactants in the other order.
SwappedCall(order) ==
    generateReactions(family, recipe, otherKind = "rev", other, SwapReactants(orig),
                      isForward, order)

\* The swapped call ends as this one did, with the same reactions.
SameAsSwapped(g) ==
    /\ g.status = status
    /\ status = "ok" => SameReactionSet(reactionList, g.rxnList)

\* C16: for a family with two different template reactants,
\* generateReactions([A, B]) and generateReactions([B, A]) return the same
\* reactions: the same product sets up to isomorphism with the same
\* degeneracies.
C16_ReactantOrderInsensitive ==
    TwoDifferentTemplateReactants =>
        \A order \in SplitPriorities : SameAsSwapped(SwappedCall(order))

\* Two molecules that are not isomorphic react, some of the reactions coming
\* from the direct assignment to the template and some from the swapped one.
C16_Witness ==
    /\ TwoDifferentTemplateReactants
    /\ Returned
    /\ reactionList # <<>>
    /\ ~IsIsomorphic(Restrict(orig, MoleculesOf(Components(orig))[1]),
                     Restrict(orig, MoleculesOf(Components(orig))[2]))
    /\ CandidatesDirectOnly(family, orig, isForward) # <<>>
    /\ Len(CallCandidates) > Len(CandidatesDirectOnly(family, orig, isForward))


-----------------------------------------------------------------------------
(* Properties of the rate lookup and of the fit.                           *)

\* The nodes from a node up to its root.
Chain(n) == {n} \cup {ancestors(n)[i] : i \in DOMAIN ancestors(n)}

\* A reactant yields a matched node for a top-level node.
Represents(reactant, root) ==
    /\ getLabeledAtoms(root) \subseteq reactant.labels
    /\ descendTree(reactant, root) # NoNode

\* The top-level nodes for which no reactant of the reaction yields a node.
UnmatchedRoots ==
    {k \in DOMAIN top : \A i \in DOMAIN reaction : ~Represents(reaction[i], top[k])}

\* C17: when some top-level node gets a matched node from no reactant,
\* getReactionTemplate fails with UndeterminableKineticsError; a template it
\* returns has a node under every top-level node.
C17_UnmatchedRootFails ==
    pc = "getReactionTemplate" =>
        /\ UnmatchedRoots # {} => status = "UndeterminableKineticsError"
        /\ status = "ok" =>
              \A k \in DOMAIN top : \E j \in DOMAIN template : top[k] \in Chain(template[j])


\* The family has the same node as its two top-level nodes.
SymmetricTop == Len(top) = 2 /\ top[1] = top[2]

\* C18: for a family whose two top-level nodes are the same node (radical
\* recombination), getReactionTemplate on a reaction whose two reactants both
\* match that node succeeds and returns two matched nodes, one per match.
C18_SymmetricRootMatchedTwice ==
    (/\ pc = "getReactionTemplate"
     /\ SymmetricTop
     /\ Len(reaction) = 2
     /\ \A i \in DOMAIN reaction : Represents(reaction[i], top[1]))
        => /\ status = "ok"
           /\ template = <<descendTree(reaction[1], top[1]), descendTree(reaction[2], top[1])>>


\* The template of the reaction looked up.
LookupTemplate == getReactionTemplate(family, top, reaction)

\* The tuples of the cartesian product of the ancestor chains of its nodes.
ChainTuples ==
    {getAllCombinations(NodeLists(LookupTemplate.template))[k] :
        k \in DOMAIN getAllCombinations(NodeLists(LookupTemplate.template))}

\* Those of them the rate store has data for.
TuplesWithData == {item \in ChainTuples : getData(library, item) # None}

\* C19: for a reaction whose template is found, getKinetics fails with
\* UndeterminableKineticsError exactly when the rate store has data for no
\* tuple of the cartesian product of the ancestor chains, and otherwise
\* returns the entry with the highest index among the tuples with data.
C19_HighestIndexOrUndeterminable ==
    (pc = "getKinetics" /\ LookupTemplate.status = "ok") =>
        IF TuplesWithData = {}
        THEN status = "UndeterminableKineticsError"
        ELSE /\ status = "ok"
             /\ \E item \in TuplesWithData :
                   /\ kinetics = getData(library, item)
                   /\ \A other2 \in TuplesWithData : getData(library, other2) <= kinetics


\* The observations of a node: the groups of the templates that are the node
\* or one of its descendants.
Observations(n) ==
    {<<k, g>> \in (DOMAIN templates) \X (1..2) :
        g \in DOMAIN templates[k] /\ n \in Chain(templates[k][g])}

\* The top-level nodes, as a set.
TopNodes == {top[k] : k \in DOMAIN top}

\* The data of a node holds one value and one uncertainty per temperature,
\* none of them a zero put there by default.
FittedAtEveryTemperature(n) ==
    /\ ~data[n].isNone
    /\ Len(data[n].kdata) = Len(Tdata)
    /\ Len(data[n].uncertainties) = Len(Tdata)
    /\ \A t \in DOMAIN data[n].kdata : data[n].kdata[t] # "zero"

FitWithoutData ==
    /\ pc \in {"fitGroupValues", "fitGroupValuesFromOldLibrary"}
    /\ templates = <<>>

\* C21: a fit started for a family with no usable rate data, through
\* fitGroupValuesFromOldLibrary or through fitGroupValues with no templates,
\* returns to its caller without raising and gives no node a fitted value.
C21_FitWithoutDataReturns ==
    FitWithoutData =>
        /\ status \in {"ok", "None"}
        /\ \A n \in Nodes : \A t \in DOMAIN data[n].kdata : data[n].kdata[t] # "fitted"


\* A fit went through its loop over the temperatures.
Fitted ==
    /\ pc \in {"fitGroupValues", "fitGroupValuesFromOldLibrary"}
    /\ status = "ok"
    /\ Tdata # <<>>

\* The unknowns on the paths of a template: every node from each of its
\* groups up to the root, the top-level nodes aside (the intercept stands
\* for them).
PathUnknowns(tmpl) == (UNION {Chain(tmpl[g]) : g \in DOMAIN tmpl}) \ TopNodes

\* The groups of a list, as a set.
GroupsOf(list) == {list[i] : i \in DOMAIN list}

\* The rows of the matrix that carry the rate of the k-th template.
RowsOfTemplate(k) == {r \in DOMAIN A : A[r].template = k}

\* C22 as stated: the rate of every template appears in an equation whose
\* unknowns are the intercept and every node on the paths from the groups of
\* the template up to their roots, and its modelled rate is that same sum.
C22_EquationOverWholePath ==
    Fitted =>
        \A k \in DOMAIN templates :
            /\ \E r \in RowsOfTemplate(k) : A[r].groups = PathUnknowns(templates[k])
            /\ GroupsOf(kmodel[k]) = PathUnknowns(templates[k])

\* The choices of one node from the path of each group of a template.
PathChoices(tmpl) ==
    IF Len(tmpl) = 1 THEN {<<a>> : a \in Chain(tmpl[1])}
    ELSE {<<a, b>> : a \in Chain(tmpl[1]), b \in Chain(tmpl[2])}

\* C22: the rate of every template appears in one equation for every choice
\* of one node from the path of each of its groups (the group itself or an
\* ancestor, up to the root); the unknowns of that equation are the
\* intercept and the chosen nodes that are not top-level nodes.  The
\* modelled rate of a template is the intercept plus the values of its own
\* groups that are not top-level nodes, ancestors left out, a group named
\* twice by the template counted twice.
C22_EquationPerPathChoice ==
    Fitted =>
        /\ Len(kmodel) = Len(templates)
        /\ \A r \in DOMAIN A : A[r].template \in DOMAIN templates
        /\ \A k \in DOMAIN templates :
              /\ Cardinality(RowsOfTemplate(k)) = Cardinality(PathChoices(templates[k]))
              /\ {A[r].groups : r \in RowsOfTemplate(k)}
                     = {GroupsOf(c) \ TopNodes : c \in PathChoices(templates[k])}
              /\ GroupsOf(kmodel[k]) = GroupsOf(templates[k]) \ TopNodes
              /\ Len(kmodel[k]) = Cardinality({g \in DOMAIN templates[k] :
                                                  templates[k][g] \notin TopNodes})
              /\ \E r \in RowsOfTemplate(k) : A[r].groups = GroupsOf(kmodel[k])

\* A template of two groups, one of them two levels below its root, was
\* fitted: it has six equations, none over all the nodes of its paths.
C22_Witness ==
    /\ Fitted
    /\ \E k \in DOMAIN templates :
          /\ Len(templates[k]) = 2
          /\ Cardinality(RowsOfTemplate(k)) = 6
          /\ Cardinality(PathUnknowns(templates[k])) = 3
          /\ \A r \in RowsOfTemplate(k) : A[r].groups # PathUnknowns(templates[k])

-----------------------------------------------------------------------------
(* Properties of queries over the same reactant molecules.                 *)

\* What a call over the caller's molecules returns when nothing else runs.
Alone(query) ==
    generateReactionsOf(family, recipe, otherKind = "rev", other, orig,
                        query.forward, QueryOrder, sameReactants)

\* Two calls ended alike: with the same exception, or with the same
\* reactions (product sets up to isomorphism, with their degeneracies).
SameResult(g1, g2) ==
    /\ g1.status = g2.status
    /\ g1.status = "ok" => SameReactionSet(g1.rxnList, g2.rxnList)

\* A finished call ended as it does when nothing else runs.
AsAlone(query) == SameResult(query.acc, Alone(query))

C23_LabelsUntouched == [][orig'.label = orig.label]_vars

ReturnedAlone(q) ==
    /\ queries[q].pc = "done"
    /\ queries[q].acc.status = "ok"
    /\ \A p \in DOMAIN queries \ {q} : queries[p].pc = "idle"

\* C30: on every return path of generateReactions each reactant molecule
\* that had implicit hydrogens on entry has them implicit again, and each
\* that had them explicit is left explicit.
C30_HydrogensRestored ==
    \A q \in DOMAIN queries : ReturnedAlone(q) => implicitHydrogens = queries[q].implicitH

\* The same for the calls that get past the choice of the template.
C30_HydrogensRestoredPastTemplate ==
    \A q \in DOMAIN queries :
        (ReturnedAlone(q) /\ (queries[q].forward \/ HasReverseTemplate(family)))
            => implicitHydrogens = queries[q].implicitH

\* A call over one species given for both reactants of a bimolecular
\* template went through all its candidates.
SameSpeciesReacted(q) ==
    /\ sameReactants # "no"
    /\ queries[q].pc = "done"
    /\ queries[q].acc.status = "ok"
    /\ TemplateReactants(family, queries[q].forward) = 2
    /\ queries[q].forward \/ HasReverseTemplate(family)

\* The pairs (mapping onto template reactant 1, mapping onto template
\* reactant 2) of the species.
MappingPairs(q) == CandidatesDirectOnly(family, orig, queries[q].forward)

\* C27: when both reactants of a bimolecular template are the same species,
\* given as the same isomer list or as the same molecule twice, the swapped
\* order is not tried: every pair of mappings makes exactly one candidate.
C27_SameSpeciesNotSwapped ==
    \A q \in DOMAIN queries :
        SameSpeciesReacted(q) => queries[q].acc.candidates = Len(MappingPairs(q))

\* The same for the species given as the same isomer list only.
C27_SameListNotSwapped ==
    \A q \in DOMAIN queries :
        (SameSpeciesReacted(q) /\ sameReactants = "list")
            => queries[q].acc.candidates = Len(MappingPairs(q))

-----------------------------------------------------------------------------
(* Properties of the database calls.                                       *)

\* The reactions the library gives for the reactants of the request.
Gathered == generateReactionsFromLibrary(request.reactants, entries)

\* A reaction of the list before the filter is in the list returned.
Kept(e) == \E j \in DOMAIN found.list : found.list[j] = e

\* Every specified product is isomorphic to a product of the reaction.
InvolvesAllSpecified(rxn) ==
    \A k \in DOMAIN request.products :
        \E j \in DOMAIN rxn.products : IsIsomorphic(request.products[k], rxn.products[j])

\* C24: generateReactions with a products argument keeps exactly the
\* reactions that involve all of the specified products: a reaction is
\* removed if and only if some specified product is isomorphic to none of
\* the products of the reaction.
C24_KeepsReactionsWithAllProducts ==
    (pc = "database.generateReactions" /\ request.given) =>
        \A i \in DOMAIN Gathered : Kept(Gathered[i]) = InvolvesAllSpecified(Gathered[i].item)

\* What the filter does keep: the reactions all of whose products are
\* matched, each by a specified product of its own.
C24_KeepsReactionsWithinProducts ==
    (pc = "database.generateReactions" /\ request.given) =>
        \A i \in DOMAIN Gathered :
            Kept(Gathered[i]) = (UnmatchedProducts(Gathered[i].item.products, request.products) = <<>>)

\* A reaction has all the reactants and all the products of the request:
\* the same counts, matched one to one by isomorphism in any order.
HasAllGiven(rxn) ==
    /\ MatchesEitherOrder(request.reactants, rxn.reactants)
    /\ MatchesEitherOrder(request.products, rxn.products)

\* C28: getKineticsDataFromLibrary returns the data of an entry only if the
\* reaction of that entry has all the given reactants and products, and
\* returns None, without raising, when no entry has; also when the numbers
\* of reactants and of products differ.
C28_DataOfEquivalentReactionOnly ==
    pc = "getKineticsDataFromLibrary" =>
        /\ status = "ok"
        /\ found.data # None =>
              \E i \in DOMAIN entries : entries[i].data = found.data /\ HasAllGiven(entries[i].item)
        /\ (\A i \in DOMAIN entries : ~HasAllGiven(entries[i].item)) => found.data = None

\* The same for requests with as many products as reactants.
C28_DataOfEquivalentReactionSameCounts ==
    (pc = "getKineticsDataFromLibrary" /\ Len(request.reactants) = Len(request.products)) =>
        /\ status = "ok"
        /\ found.data # None =>
              \E i \in DOMAIN entries : entries[i].data = found.data /\ HasAllGiven(entries[i].item)
        /\ (\A i \in DOMAIN entries : ~HasAllGiven(entries[i].item)) => found.data = None


=============================================================================
